---------------------------- MODULE Spec2Model ----------------------------
(***************************************************************************)
(* pyfluidsynth (src/fluidsynth.py): the object-oriented layer over the    *)
(* native FluidSynth library.  The Python classes Player / BasePlayer and  *)
(* Sequencer are modelled from their source; the native library they call  *)
(* through ctypes (only its prototypes are in the source) is modelled as   *)
(* the engine the specification describes.                                 *)
(***************************************************************************)
EXTENDS Integers, Sequences, FiniteSets, TLC

(* ----------------------------- constants ------------------------------ *)
FLUID_OK == 0
FLUID_FAILED == -1
FLUID_PLAYER_READY == 0
FLUID_PLAYER_PLAYING == 1
FLUID_PLAYER_DONE == 2

AUDIO_FILE_TYPES ==
    {"aiff", "au", "auto", "avr", "caf", "flac", "htk", "iff", "mat", "oga",
     "paf", "pvf", "raw", "sd2", "sds", "sf", "voc", "w64", "wav", "xi"}

\* Python's None, where a string argument may be omitted
NoneVal == "<None>"
\* Python's None as the time of a sequencer event (ticks are unsigned)
NoTime == -1

FLUID_SEQ_NOTEON == 1
FLUID_SEQ_TIMER == 17

FLUID_MIDI_ROUTER_RULE_NOTE == 0
FLUID_MIDI_ROUTER_RULE_CC == 1
FLUID_MIDI_ROUTER_RULE_PROG_CHANGE == 2
FLUID_MIDI_ROUTER_RULE_PITCH_BEND == 3
FLUID_MIDI_ROUTER_RULE_CHANNEL_PRESSURE == 4
FLUID_MIDI_ROUTER_RULE_KEY_PRESSURE == 5

(* ------------------------------- bounds ------------------------------- *)
\* longest stream of the playlist, in blocks of player ticks
MaxTicks == 2
\* blocks one render call may request before the model stops following it
MaxBlocks == 3

\* latest tick an entry is scheduled at
MaxTime == 3
\* entries and immediate events one run schedules
MaxEvents == 3
\* entries one run schedules before it cancels some
MaxRemoveEvents == 4
\* size of the sequencer's client table
MaxClients == 2
\* longest step of one process() call, in milliseconds
MaxAdvance == 2

\* values of the 'audio.period-size' setting the runs use
PeriodSizes == {64, 256}
\* file types handed to render: one of the vocabulary, one outside it, and None
FileTypeInputs == {"wav", "mp3", NoneVal}
FileNameInputs == {"out.wav"}
\* event kinds, ticks and time scales the sequencer runs use
EventTypes == {FLUID_SEQ_NOTEON, FLUID_SEQ_TIMER}
RemoveTimes == {1}
\* (source, dest, type) filters given to remove_events; -1 is the wildcard
RemoveFilters ==
    {<<-1, 0, -1>>, <<-1, 1, FLUID_SEQ_NOTEON>>, <<-1, -1, FLUID_SEQ_TIMER>>,
     <<0, -1, -1>>, <<-1, -1, -1>>}
TimeScales == {1000, 2000}
\* Sequencer() called without a time_scale
NoScale == -1
NoRequest == [time |-> NoTime, absolute |-> FALSE, src |-> -1, dest |-> -1, type |-> -1,
              msec |-> 0, scale |-> 0, evt |-> "none"]

(* ------------------------------ variables ----------------------------- *)
VARIABLES
    \* native player (engine side)
    status,         \* fluid_player_get_status
    position,       \* fluid_player_get_current_tick
    total_ticks,    \* fluid_player_get_total_ticks
    has_seek,       \* whether the library exports fluid_player_seek (2.x)
    \* native settings object of the synth
    settings,
    \* Player.render, the calling thread
    pc,             \* "idle" | "test" | "block" | "finally"
    renderer,       \* "null" | "live" | "deleted"
    released,       \* delete_fluid_file_renderer calls on the current renderer
    period_size,
    num_samples,
    blocks,         \* successful fluid_file_renderer_process_block calls
    requests,       \* all fluid_file_renderer_process_block calls
    callback,       \* whether a progress_callback was supplied
    cbLog,          \* frame counts handed to progress_callback
    pending,        \* the exception in flight through the finally block
    cleanup,        \* native calls made by the finally block, in order
    preSettings,    \* settings when render was called
    req_filetype,   \* the filetype argument of the last render call
    \* results seen by the caller
    lastOp,
    outcome,
    retval,
    \* Player.stop
    stop_calls,     \* native calls made by the last Player.stop, in order
    notes_off_chan, \* channel given to the last fluid_synth_all_notes_off
    engStopRet,     \* what the last fluid_player_stop returned
    stopRet,        \* what the last Player.stop returned
    preStatus,      \* status when the last operation began
    \* Player.play
    play_calls,     \* native calls that change the player, made by the last play
    play_offset,    \* the offset argument of the last play
    prePosition,    \* position when the last play began
    \* native sequencer (engine side)
    seq_tick,         \* fluid_sequencer_get_tick
    time_scale,       \* ticks per second
    seq_timer,        \* whether the engine's own timer advances the clock
    seq_clients,      \* ids of the registered clients
    seq_next_id,      \* id the next registration gets
    seq_queue,        \* pending entries, in dispatch order
    seq_log,          \* entries handed to their client's callback, in order
    seq_removed,      \* serial numbers of the entries remove_events discarded
    seq_serial,       \* entries and immediate events accepted so far
    \* Sequencer (Python side)
    client_callbacks, \* self.client_callbacks
    seq_lastOp,
    seq_outcome,
    seq_ctor,         \* the arguments Sequencer(...) was constructed with
    seq_req,          \* the arguments of the last call, and its event object
    seq_ids,          \* ids the successful registrations returned, in order
    \* RouterRule objects and the native rules behind them
    rules,            \* per object: type, handle, axes, and what was asked of it
    applied,          \* the last value put through one axis of a rule
    \* Synth: the MIDI router and what Synth.start wired to it
    router,           \* self.router: "None" | "live"
    driver_handler,   \* the handler the MIDI driver hands its events to
    router_handler,   \* the handler the router hands routed events to
    chain,            \* the router's rules: per rule type, in registration order
    routed,           \* the last MIDI event from the driver and what became of it
    rt_lastOp,
    rt_outcome,
    rt_req,           \* the arguments of the last router call
    \* Synth: effects and notes
    fx,               \* the engine: the calls it offers, its reverb and chorus values
    fx_req,           \* the last effect call: its arguments, what reached the engine
    fx_calls,         \* effect calls made so far
    note_req,         \* the last noteon / noteoff: its arguments, what reached the engine
    \* Synth: what start created and delete released
    parts,            \* self.audio_driver, self.midi_driver, self.cmd_handler
    deleted           \* the native delete calls of Synth.delete, in order

playerVars == <<status, position, total_ticks, has_seek, settings, pc, renderer,
                released, period_size, num_samples, blocks, requests, callback,
                cbLog, pending, cleanup, preSettings, req_filetype, lastOp, outcome,
                retval, stop_calls, notes_off_chan, engStopRet, stopRet, preStatus,
                play_calls, play_offset, prePosition>>

seqVars == <<seq_tick, time_scale, seq_clients, seq_next_id, seq_queue, seq_log,
             seq_removed, seq_serial, client_callbacks, seq_lastOp, seq_outcome,
             seq_req, seq_ids, seq_ctor, seq_timer>>

routerVars == <<rules, applied, router, driver_handler, router_handler, chain,
                routed, rt_lastOp, rt_outcome, rt_req>>

synthVars == <<fx, fx_req, fx_calls, note_req>>

lifeVars == <<parts, deleted>>

vars == <<playerVars, seqVars, routerVars, synthVars, lifeVars>>

(* ------------------- native player, as the engine ------------------- *)
\* fluid_player_play: Ready --play--> Playing
fluid_player_play(st) ==
    IF st = FLUID_PLAYER_READY THEN FLUID_PLAYER_PLAYING ELSE st

\* fluid_player_stop: Playing --stop--> Done
fluid_player_stop(st) ==
    IF st = FLUID_PLAYER_PLAYING THEN FLUID_PLAYER_DONE ELSE st

\* fluid_player_seek: Done --seek--> Ready
fluid_player_seek(st) ==
    IF st = FLUID_PLAYER_DONE THEN FLUID_PLAYER_READY ELSE st

\* the position after the player consumed one block of its streams
player_advance_position(st, pos, total) ==
    IF st = FLUID_PLAYER_PLAYING /\ pos < total THEN pos + 1 ELSE pos

\* Playing --(stream exhausted)--> Done
player_advance_status(st, pos, total) ==
    IF st = FLUID_PLAYER_PLAYING /\ player_advance_position(st, pos, total) >= total
    THEN FLUID_PLAYER_DONE ELSE st

(* ------------------------------ Synth ------------------------------- *)
\* Synth.setting(opt, val): the set branch
setting(s, opt, val) == [s EXCEPT ![opt] = val]

\* Synth.all_notes_off(chan) as Player.stop calls it: -1, every channel
AllChannels == -1

(* ---------------------------- BasePlayer ---------------------------- *)
BasePlayer_play(st) == fluid_player_play(st)

\* variant: stop() that never reaches the native player
BasePlayer_stop_no_call(st) == st

BasePlayer_stop(st) == fluid_player_stop(st)

(* ------------------------------ Player ------------------------------ *)
\* Player.play: if offset != self.current_tick
Player_play_seeks(offset, pos) == offset # pos

\* Player.stop: the native calls, in order
Player_stop_calls == <<"fluid_player_stop", "fluid_synth_all_notes_off">>

\* variant: the result of the last native call is returned
Player_stop_result_last(stopRes, offRes) == offRes

\* Player.stop: result = super().stop(); all_notes_off(-1); return result
Player_stop_result(stopRes, offRes) == stopRes

\* variant: the file type is looked at after the settings were written
set_render_settings_late_check(s, filename, filetype) ==
    LET s1 == setting(s, "audio.file.name", filename)
        s2 == setting(s1, "player.timing-source", "sample")
        s3 == setting(s2, "synth.lock-memory", 0)
    IN IF filetype # NoneVal /\ filetype \notin AUDIO_FILE_TYPES
       THEN [raised |-> TRUE, settings |-> s3]
       ELSE [raised |-> FALSE,
             settings |-> IF filetype # NoneVal
                          THEN setting(s3, "audio.file.type", filetype)
                          ELSE s3]

\* Player._set_render_settings(filename, filetype)
set_render_settings(s, filename, filetype) ==
    IF filetype # NoneVal /\ filetype \notin AUDIO_FILE_TYPES
    THEN [raised |-> TRUE, settings |-> s]
    ELSE LET s1 == setting(s, "audio.file.name", filename)
             s2 == setting(s1, "player.timing-source", "sample")
             s3 == setting(s2, "synth.lock-memory", 0)
         IN [raised |-> FALSE,
             settings |-> IF filetype # NoneVal
                          THEN setting(s3, "audio.file.type", filetype)
                          ELSE s3]

\* variant: the loop does not look at the status
render_loop_continues_always(st) == TRUE

\* while self.status != FLUID_PLAYER_DONE
render_loop_continues(st) == st # FLUID_PLAYER_DONE

\* variant: the block's result is not looked at
render_block_failed_ignored(res) == FALSE

\* if fluid_file_renderer_process_block(renderer) != FLUID_OK: raise
render_block_failed(res) == res # FLUID_OK

\* variant: blocks are counted, not frames
render_count_blocks(n, period) == n + 1

\* num_samples += period_size
render_count(n, period) == n + period

\* variant: memory locking is left off
render_restore_timing_only(s) == setting(s, "player.timing-source", "system")

\* finally: the two settings put back
render_restore(s) ==
    setting(setting(s, "player.timing-source", "system"), "synth.lock-memory", 1)

\* finally: the native calls, in order
render_cleanup_calls ==
    Player_stop_calls \o
    <<"fluid_player_join", "fluid_settings_setstr", "fluid_settings_setint",
      "delete_fluid_file_renderer">>

\* finally: how often the renderer is deleted
render_release_count == 1

(* ------------------------------- Init ------------------------------- *)
InitSettings(p) ==
    [x \in {"audio.file.name", "audio.file.type", "player.timing-source",
            "synth.lock-memory", "audio.period-size"} |->
        CASE x = "audio.file.name" -> "fluidsynth.wav"
          [] x = "audio.file.type" -> "auto"
          [] x = "player.timing-source" -> "system"
          [] x = "synth.lock-memory" -> 1
          [] x = "audio.period-size" -> p]

InitPlayer ==
    /\ status = FLUID_PLAYER_READY
    /\ position = 0
    /\ total_ticks \in 0..MaxTicks
    /\ has_seek \in BOOLEAN
    /\ \E p \in PeriodSizes : settings = InitSettings(p)
    /\ pc = "idle"
    /\ renderer = "null"
    /\ released = 0
    /\ period_size = 0
    /\ num_samples = 0
    /\ blocks = 0
    /\ requests = 0
    /\ callback = FALSE
    /\ cbLog = <<>>
    /\ pending = "none"
    /\ cleanup = <<>>
    /\ preSettings = settings
    /\ req_filetype = NoneVal
    /\ lastOp = "init"
    /\ outcome = "none"
    /\ retval = 0
    /\ stop_calls = <<>>
    /\ notes_off_chan = 0
    /\ engStopRet = 0
    /\ stopRet = 0
    /\ preStatus = FLUID_PLAYER_READY
    /\ play_calls = <<>>
    /\ play_offset = 0
    /\ prePosition = 0

\* a new call on the player: the locals and results of the previous one are gone
ClearRender ==
    /\ renderer' = "null"
    /\ released' = 0
    /\ period_size' = 0
    /\ num_samples' = 0
    /\ blocks' = 0
    /\ requests' = 0
    /\ callback' = FALSE
    /\ cbLog' = <<>>
    /\ pending' = "none"
    /\ cleanup' = <<>>
    /\ preSettings' = settings
    /\ req_filetype' = NoneVal
    /\ UNCHANGED pc

ClearStop ==
    /\ stop_calls' = <<>>
    /\ notes_off_chan' = 0
    /\ engStopRet' = 0
    /\ stopRet' = 0

\* what the last play left for its caller is gone with the next call
ClearPlay ==
    /\ play_calls' = <<>>
    /\ play_offset' = 0
    /\ prePosition' = 0

renderVars == <<pc, renderer, released, period_size, num_samples, blocks, requests,
                callback, cbLog, pending, cleanup, preSettings, req_filetype>>
stopVars == <<stop_calls, notes_off_chan, engStopRet, stopRet>>

(* ------------------------------ actions ----------------------------- *)
\* Player.play(offset)
Player_play(offset) ==
    /\ UNCHANGED <<seqVars, routerVars, synthVars, lifeVars>>
    /\ pc = "idle"
    /\ lastOp' = "play"
    /\ preStatus' = status
    /\ play_offset' = offset
    /\ prePosition' = position
    /\ IF Player_play_seeks(offset, position)
       THEN \* self.seek(offset): Player has no attribute 'seek'
            /\ outcome' = "AttributeError"
            /\ retval' = 0
            /\ play_calls' = <<>>
            /\ UNCHANGED status
       ELSE /\ status' = BasePlayer_play(status)
            /\ outcome' = "ok"
            /\ retval' = FLUID_OK
            /\ play_calls' = <<"fluid_player_play">>
    /\ ClearRender
    /\ ClearStop
    /\ UNCHANGED <<position, total_ticks, has_seek, settings>>

\* BasePlayer.current_tick = ticks (seek)
BasePlayer_seek(ticks) ==
    /\ UNCHANGED <<seqVars, routerVars, synthVars, lifeVars>>
    /\ ClearPlay
    /\ pc = "idle"
    /\ lastOp' = "seek"
    /\ preStatus' = status
    /\ IF ~has_seek
       THEN /\ outcome' = "NotImplementedError"
            /\ retval' = 0
            /\ UNCHANGED <<status, position>>
       ELSE /\ status' = fluid_player_seek(status)
            /\ position' = ticks
            /\ outcome' = "ok"
            /\ retval' = FLUID_OK
    /\ ClearRender
    /\ ClearStop
    /\ UNCHANGED <<total_ticks, has_seek, settings>>

\* Player.stop(), from the thread that owns the player or from another one
Player_stop ==
    /\ UNCHANGED <<seqVars, routerVars, synthVars, lifeVars>>
    /\ ClearPlay
    /\ lastOp' = "stop"
    /\ preStatus' = status
    /\ \E stopRes \in {FLUID_OK, FLUID_FAILED}, offRes \in {FLUID_OK, FLUID_FAILED} :
          /\ status' = BasePlayer_stop(status)
          /\ engStopRet' = stopRes
          /\ stop_calls' = Player_stop_calls
          /\ notes_off_chan' = AllChannels
          /\ stopRet' = Player_stop_result(stopRes, offRes)
    /\ IF pc = "idle"
       THEN ClearRender /\ outcome' = "ok" /\ retval' = stopRet'
       ELSE UNCHANGED <<renderVars, outcome, retval>>
    /\ UNCHANGED <<position, total_ticks, has_seek, settings>>

\* the native playback thread, realtime mode: one step through the streams
PlayerTick ==
    /\ UNCHANGED <<seqVars, routerVars, synthVars, lifeVars>>
    /\ ClearPlay
    /\ pc = "idle"
    /\ status = FLUID_PLAYER_PLAYING
    /\ lastOp' = "tick"
    /\ preStatus' = status
    /\ position' = player_advance_position(status, position, total_ticks)
    /\ status' = player_advance_status(status, position, total_ticks)
    /\ UNCHANGED <<total_ticks, has_seek, settings, renderVars, stopVars,
                   outcome, retval>>

\* Player.render(filename, filetype, quality, progress_callback): up to the loop
Player_render(filename, filetype, cb) ==
    /\ UNCHANGED <<seqVars, routerVars, synthVars, lifeVars>>
    /\ ClearPlay
    /\ pc = "idle"
    /\ lastOp' = "render"
    /\ preStatus' = status
    /\ preSettings' = settings
    /\ req_filetype' = filetype
    /\ callback' = cb
    /\ LET r == set_render_settings(settings, filename, filetype) IN
       /\ settings' = r.settings
       /\ IF r.raised
          THEN /\ outcome' = "OSError: unknown file type"
               /\ renderer' = "null"
               /\ released' = 0
               /\ period_size' = 0
               /\ num_samples' = 0
               /\ blocks' = 0
               /\ requests' = 0
               /\ cbLog' = <<>>
               /\ pending' = "none"
               /\ cleanup' = <<>>
               /\ UNCHANGED pc
          ELSE \E created \in BOOLEAN :
               IF ~created
               THEN /\ outcome' = "OSError: no renderer"
                    /\ renderer' = "null"
                    /\ released' = 0
                    /\ period_size' = 0
                    /\ num_samples' = 0
                    /\ blocks' = 0
                    /\ requests' = 0
                    /\ cbLog' = <<>>
                    /\ pending' = "none"
                    /\ cleanup' = <<>>
                    /\ UNCHANGED pc
               ELSE /\ outcome' = "running"
                    /\ renderer' = "live"
                    /\ released' = 0
                    /\ period_size' = r.settings["audio.period-size"]
                    /\ num_samples' = 0
                    /\ blocks' = 0
                    /\ requests' = 0
                    /\ cbLog' = <<>>
                    /\ pending' = "none"
                    /\ cleanup' = <<>>
                    /\ pc' = "test"
    /\ retval' = 0
    /\ ClearStop
    /\ UNCHANGED <<status, position, total_ticks, has_seek>>

\* the loop's test
Player_render_test ==
    /\ UNCHANGED <<seqVars, routerVars, synthVars, lifeVars>>
    /\ ClearPlay
    /\ pc = "test"
    /\ lastOp' = "render_test"
    /\ pc' = IF render_loop_continues(status) THEN "block" ELSE "finally"
    /\ UNCHANGED <<status, position, total_ticks, has_seek, settings, renderer,
                   released, period_size, num_samples, blocks, requests, callback,
                   cbLog, pending, cleanup, preSettings, req_filetype, outcome,
                   retval, stopVars, preStatus>>

\* the loop's body: one block, the counter, the callback
Player_render_block ==
    /\ UNCHANGED <<seqVars, routerVars, synthVars, lifeVars>>
    /\ ClearPlay
    /\ pc = "block"
    /\ requests < MaxBlocks
    /\ lastOp' = "render_block"
    /\ preStatus' = status
    /\ requests' = requests + 1
    /\ \E res \in {FLUID_OK, FLUID_FAILED}, cbRaises \in BOOLEAN :
          \* the engine: a block that is produced moves the player on
          /\ IF res = FLUID_OK
             THEN /\ position' = player_advance_position(status, position, total_ticks)
                  /\ status' = player_advance_status(status, position, total_ticks)
                  /\ blocks' = blocks + 1
             ELSE UNCHANGED <<status, position, blocks>>
          \* the loop body
          /\ IF render_block_failed(res)
             THEN /\ ~cbRaises
                  /\ pending' = "OSError: renderer error"
                  /\ pc' = "finally"
                  /\ UNCHANGED <<num_samples, cbLog>>
             ELSE
               /\ (cbRaises => callback)
               /\ num_samples' = render_count(num_samples, period_size)
               /\ cbLog' = IF callback THEN Append(cbLog, num_samples') ELSE cbLog
               /\ pending' = IF cbRaises THEN "callback error" ELSE pending
               /\ pc' = IF cbRaises THEN "finally" ELSE "test"
    /\ UNCHANGED <<total_ticks, has_seek, settings, renderer, released, period_size,
                   callback, cleanup, preSettings, req_filetype, outcome, retval,
                   stopVars>>

\* the finally block, then the return or the re-raise
Player_render_finally ==
    /\ UNCHANGED <<seqVars, routerVars, synthVars, lifeVars>>
    /\ ClearPlay
    /\ pc = "finally"
    /\ lastOp' = "render_finally"
    /\ preStatus' = status
    /\ \E stopRes \in {FLUID_OK, FLUID_FAILED}, offRes \in {FLUID_OK, FLUID_FAILED} :
          /\ status' = BasePlayer_stop(status)
          /\ engStopRet' = stopRes
          /\ stop_calls' = Player_stop_calls
          /\ notes_off_chan' = AllChannels
          /\ stopRet' = Player_stop_result(stopRes, offRes)
    /\ cleanup' = render_cleanup_calls
    /\ settings' = render_restore(settings)
    /\ released' = released + render_release_count
    /\ renderer' = "deleted"
    /\ pc' = "idle"
    /\ outcome' = IF pending = "none" THEN "returned" ELSE pending
    /\ retval' = IF pending = "none" THEN num_samples ELSE 0
    /\ UNCHANGED <<position, total_ticks, has_seek, period_size, num_samples,
                   blocks, requests, callback, cbLog, pending, preSettings,
                   req_filetype>>

PlayerNext ==
    \/ \E offset \in 0..MaxTicks : Player_play(offset)
    \/ \E ticks \in 0..MaxTicks : BasePlayer_seek(ticks)
    \/ Player_stop
    \/ PlayerTick
    \/ \E fn \in FileNameInputs, ft \in FileTypeInputs, cb \in BOOLEAN :
          Player_render(fn, ft, cb)
    \/ Player_render_test
    \/ Player_render_block
    \/ Player_render_finally

(* ------------------ native sequencer, as the engine ------------------ *)
\* the queue with entry e added: ascending ticks, first in first out in a tick
seq_insert(q, e) ==
    LET k == Cardinality({i \in 1..Len(q) : q[i].tick <= e.tick})
    IN SubSeq(q, 1, k) \o <<e>> \o SubSeq(q, k + 1, Len(q))

\* variant: an entry waits until the clock has passed its tick
seq_due_strictly_before(e, t) == e.tick < t

\* an entry is dispatched once the clock has reached its tick
seq_due(e, t) == e.tick <= t

\* variant: a due entry is delivered whether or not its client is registered
seq_delivers_always(e, clients) == TRUE

\* a due entry is delivered if its client is in the table, and dropped if not
seq_delivers(e, clients) == e.dest \in clients

\* fluid_sequencer_send_at: the tick the entry is scheduled at
send_at_tick(now, time, absolute) ==
    IF absolute = 1 THEN time ELSE now + time

\* fluid_sequencer_send_at: refused in the past or for an unknown destination
send_at_result(now, clients, time, absolute, dest) ==
    IF (absolute = 1 /\ time < now) \/ dest \notin clients
    THEN FLUID_FAILED ELSE FLUID_OK

\* fluid_sequencer_process: the clock after msec milliseconds
process_tick(now, scale, msec) == now + (msec * scale) \div 1000

\* variant: an unspecified field of the filter matches nothing
remove_matches_exact(e, source, dest, type) ==
    e.src = source /\ e.dest = dest /\ e.type = type

\* fluid_sequencer_remove_events: -1 matches every source, destination, type
remove_matches(e, source, dest, type) ==
    /\ (source = -1 \/ e.src = source)
    /\ (dest = -1 \/ e.dest = dest)
    /\ (type = -1 \/ e.type = type)

(* ----------------------------- Sequencer ----------------------------- *)
\* variant: a time of 0 is taken for no time (if not time)
schedule_sends_now_zero(time) == time = NoTime \/ time = 0

\* _schedule_event: if time is None
schedule_sends_now(time) == time = NoTime

\* variant: every time is passed as a delta
schedule_absolute_arg_relative(absolute) == 0

\* _schedule_event: 1 if absolute else 0
schedule_absolute_arg(absolute) == IF absolute THEN 1 ELSE 0

\* variant: the event is sent for tick 0
schedule_time_arg_zero(time) == 0

\* _schedule_event: the time handed to fluid_sequencer_send_at
schedule_time_arg(time) == time

\* note / note_on / note_off / timer: delete_fluid_event(evt) is the statement
\* after _schedule_event, and is not reached when that raises
event_after_schedule(raised) == IF raised THEN "live" ELSE "deleted"

\* variant: the response of the native call is dropped
schedule_raises_never(answered, response) == FALSE

\* _schedule_event: if response == FLUID_FAILED: raise.  send_now answers None
schedule_raises(answered, response) == answered /\ response = FLUID_FAILED

\* variant: the engine's own default scale is left in place
Sequencer_time_scale_default(time_scale_arg) == 1000

\* def __init__(self, time_scale=1000, ...): fluid_sequencer_set_time_scale
Sequencer_time_scale(time_scale_arg) ==
    IF time_scale_arg = NoScale THEN 1000 ELSE time_scale_arg

\* variant: the sequencer is always created with its own timer
Sequencer_timer_arg_default(use_system_timer) == 1

\* new_fluid_sequencer2(use_system_timer): the flag as a C int
Sequencer_timer_arg(use_system_timer) == IF use_system_timer THEN 1 ELSE 0

\* new_fluid_sequencer2: a nonzero flag starts the engine's timer
new_fluid_sequencer2(flag) == flag # 0

\* fluid_sequencer_get_time_scale
sequencer_get_time_scale == time_scale

\* variant: the clock is turned back by msec
process_msec_arg_back(msec) == 0 - msec

\* process: the msec handed to fluid_sequencer_process
process_msec_arg(msec) == msec

InitSeq ==
    /\ seq_tick = 0
    /\ seq_ctor \in [time_scale : {NoScale} \cup TimeScales, use_system_timer : BOOLEAN]
    /\ seq_timer = new_fluid_sequencer2(Sequencer_timer_arg(seq_ctor.use_system_timer))
    /\ time_scale = Sequencer_time_scale(seq_ctor.time_scale)
    /\ seq_clients = {}
    /\ seq_next_id = 0
    /\ seq_queue = <<>>
    /\ seq_log = <<>>
    /\ seq_removed = {}
    /\ seq_serial = 0
    /\ client_callbacks = <<>>
    /\ seq_lastOp = "init"
    /\ seq_outcome = "none"
    /\ seq_req = NoRequest
    /\ seq_ids = <<>>

\* fluid_sequencer_register_client / _fluidsynth: the next id of the table,
\* or FLUID_FAILED once the table is exhausted
sequencer_register(next) == IF next < MaxClients THEN next ELSE FLUID_FAILED

\* variant: the callback object is not kept
register_client_keeps_nothing(callbacks, c_callback) == callbacks

\* self.client_callbacks.append(c_callback): the callback of client c_callback
register_client_keeps(callbacks, c_callback) == Append(callbacks, c_callback)

\* variant: the id is not tested
register_failed_never(client_id) == FALSE

\* if client_id == FLUID_FAILED: raise OSError
register_failed(client_id) == client_id = FLUID_FAILED

\* variant: the place of the stored callback is returned as the id
register_client_result_index(client_id, callbacks) == Len(callbacks)

\* register_client: return client_id
register_client_result(client_id, callbacks) == client_id

\* Sequencer.register_client(name, callback)
Sequencer_register_client ==
    /\ UNCHANGED <<playerVars, routerVars, synthVars, lifeVars, seq_ctor, seq_timer>>
    /\ seq_lastOp' = "register_client"
    /\ seq_req' = NoRequest
    /\ LET client_id == sequencer_register(seq_next_id)
       IN IF register_failed(client_id)
          THEN /\ seq_outcome' = "OSError: registering failed"
               /\ UNCHANGED <<seq_clients, seq_next_id, client_callbacks, seq_ids>>
          ELSE /\ seq_clients' = seq_clients \cup {client_id}
               /\ seq_next_id' = seq_next_id + 1
               /\ client_callbacks' = register_client_keeps(client_callbacks, client_id)
               /\ seq_ids' = Append(seq_ids,
                                    register_client_result(client_id, client_callbacks))
               /\ seq_outcome' = "ok"
    /\ UNCHANGED <<seq_tick, time_scale, seq_queue, seq_log, seq_removed, seq_serial>>

\* Sequencer.register_fluidsynth(synth)
Sequencer_register_fluidsynth ==
    /\ UNCHANGED <<playerVars, routerVars, synthVars, lifeVars, seq_ctor, seq_timer>>
    /\ seq_lastOp' = "register_fluidsynth"
    /\ seq_req' = NoRequest
    /\ LET client_id == sequencer_register(seq_next_id)
       IN IF register_failed(client_id)
          THEN /\ seq_outcome' = "OSError: registering failed"
               /\ UNCHANGED <<seq_clients, seq_next_id, seq_ids>>
          ELSE /\ seq_clients' = seq_clients \cup {client_id}
               /\ seq_next_id' = seq_next_id + 1
               /\ seq_ids' = Append(seq_ids, client_id)
               /\ seq_outcome' = "ok"
    /\ UNCHANGED <<seq_tick, time_scale, seq_queue, seq_log, seq_removed, seq_serial,
                   client_callbacks>>

\* fluid_sequencer_unregister_client(seq, id), called on the handle: the id
\* leaves the table and is not handed out again
sequencer_unregister_client(id) ==
    /\ UNCHANGED <<playerVars, routerVars, synthVars, lifeVars, seq_ctor, seq_timer>>
    /\ seq_lastOp' = "unregister_client"
    /\ seq_req' = [NoRequest EXCEPT !.dest = id]
    /\ seq_outcome' = "ok"
    /\ seq_clients' = seq_clients \ {id}
    /\ UNCHANGED <<seq_tick, time_scale, seq_next_id, seq_queue, seq_log, seq_removed,
                   seq_serial, client_callbacks, seq_ids>>

\* Sequencer.note_on / timer (time, ..., source, dest, absolute):
\* _create_event, the event's fields, _schedule_event, delete_fluid_event
Sequencer_schedule(type, time, absolute, source, dest) ==
    /\ UNCHANGED <<playerVars, routerVars, synthVars, lifeVars, seq_ctor, seq_timer>>
    /\ seq_lastOp' = "schedule"
    /\ LET want == IF time = NoTime THEN seq_tick
                   ELSE IF absolute THEN time ELSE seq_tick + time
           e(t, queued) == [id |-> seq_serial + 1, want |-> want, tick |-> t,
                            src |-> source, dest |-> dest, type |-> type,
                            queued |-> queued]
       IN IF schedule_sends_now(time)
          THEN \* fluid_sequencer_send_now: straight to the client, if there is one
               /\ IF dest \in seq_clients
                  THEN /\ seq_log' = Append(seq_log, e(seq_tick, FALSE))
                       /\ seq_serial' = seq_serial + 1
                  ELSE UNCHANGED <<seq_log, seq_serial>>
               /\ seq_outcome' = IF schedule_raises(FALSE, FLUID_OK)
                                 THEN "OSError: scheduling failed" ELSE "ok"
               /\ UNCHANGED seq_queue
          ELSE LET flag == schedule_absolute_arg(absolute)
                   at == schedule_time_arg(time)
                   response == send_at_result(seq_tick, seq_clients, at, flag, dest)
               IN /\ IF response = FLUID_OK
                     THEN /\ seq_queue' = seq_insert(seq_queue,
                                             e(send_at_tick(seq_tick, at, flag), TRUE))
                          /\ seq_serial' = seq_serial + 1
                     ELSE UNCHANGED <<seq_queue, seq_serial>>
                  /\ seq_outcome' = IF schedule_raises(TRUE, response)
                                    THEN "OSError: scheduling failed" ELSE "ok"
                  /\ UNCHANGED seq_log
    /\ seq_req' = [NoRequest EXCEPT !.time = time, !.absolute = absolute,
                                    !.src = source, !.dest = dest, !.type = type,
                                    !.evt = event_after_schedule(seq_outcome' # "ok")]
    /\ UNCHANGED <<seq_tick, time_scale, seq_clients, seq_next_id, seq_removed,
                   client_callbacks, seq_ids>>

\* Sequencer.process(msec)
Sequencer_process(msec) ==
    /\ UNCHANGED <<playerVars, routerVars, synthVars, lifeVars, seq_ctor, seq_timer>>
    /\ process_tick(seq_tick, time_scale, msec) <= MaxTime + 1
    /\ seq_lastOp' = "process"
    /\ seq_req' = [NoRequest EXCEPT !.msec = msec]
    /\ seq_outcome' = "ok"
    /\ seq_tick' = process_tick(seq_tick, time_scale, process_msec_arg(msec))
    \* a due entry whose client has left the table is dropped, not delivered
    /\ seq_log' = seq_log \o SelectSeq(seq_queue,
                      LAMBDA e : seq_due(e, seq_tick') /\ seq_delivers(e, seq_clients))
    /\ seq_queue' = SelectSeq(seq_queue, LAMBDA e : ~seq_due(e, seq_tick'))
    /\ UNCHANGED <<time_scale, seq_clients, seq_next_id, seq_removed, seq_serial,
                   client_callbacks, seq_ids>>

\* fluid_sequencer_remove_events(seq, source, dest, type), called on the handle
sequencer_remove_events(source, dest, type) ==
    /\ UNCHANGED <<playerVars, routerVars, synthVars, lifeVars, seq_ctor, seq_timer>>
    /\ seq_lastOp' = "remove_events"
    /\ seq_req' = [NoRequest EXCEPT !.src = source, !.dest = dest, !.type = type]
    /\ seq_outcome' = "ok"
    /\ seq_queue' = SelectSeq(seq_queue,
                              LAMBDA e : ~remove_matches(e, source, dest, type))
    /\ seq_removed' = seq_removed \cup
          {seq_queue[i].id : i \in {j \in 1..Len(seq_queue) :
                                      remove_matches(seq_queue[j], source, dest, type)}}
    /\ UNCHANGED <<seq_tick, time_scale, seq_clients, seq_next_id, seq_log,
                   seq_serial, client_callbacks, seq_ids>>

\* fluid_sequencer_set_time_scale(seq, scale), called on the handle
sequencer_set_time_scale(scale) ==
    /\ UNCHANGED <<playerVars, routerVars, synthVars, lifeVars, seq_ctor, seq_timer>>
    /\ seq_lastOp' = "set_time_scale"
    /\ seq_req' = [NoRequest EXCEPT !.scale = scale]
    /\ seq_outcome' = "ok"
    /\ time_scale' = scale
    /\ UNCHANGED <<seq_tick, seq_clients, seq_next_id, seq_queue, seq_log, seq_removed,
                   seq_serial, client_callbacks, seq_ids>>

\* the engine's timer, when it was asked for: one millisecond passes
sequencer_timer ==
    /\ UNCHANGED <<playerVars, routerVars, synthVars, lifeVars, seq_ctor, seq_timer>>
    /\ seq_timer
    /\ process_tick(seq_tick, time_scale, 1) <= MaxTime + 1
    /\ seq_lastOp' = "timer"
    /\ seq_req' = NoRequest
    /\ seq_outcome' = "ok"
    /\ seq_tick' = process_tick(seq_tick, time_scale, 1)
    /\ seq_log' = seq_log \o SelectSeq(seq_queue,
                      LAMBDA e : seq_due(e, seq_tick') /\ seq_delivers(e, seq_clients))
    /\ seq_queue' = SelectSeq(seq_queue, LAMBDA e : ~seq_due(e, seq_tick'))
    /\ UNCHANGED <<time_scale, seq_clients, seq_next_id, seq_removed, seq_serial,
                   client_callbacks, seq_ids>>

\* note_on(time, ..., dest=0, absolute) on the default source
ScheduleNoteOn ==
    \E time \in {NoTime} \cup 0..MaxTime, absolute \in BOOLEAN :
       /\ seq_serial < MaxEvents
       /\ (time = NoTime => absolute)
       /\ Sequencer_schedule(FLUID_SEQ_NOTEON, time, absolute, -1, 0)

SeqNext ==
    \/ Sequencer_register_client
    \/ ScheduleNoteOn
    \/ \E msec \in 1..MaxAdvance : Sequencer_process(msec)

\* note_on / timer at an absolute tick, for any client
ScheduleForClient ==
    \E type \in EventTypes, time \in RemoveTimes, dest \in 0..(MaxClients - 1) :
       /\ seq_serial < MaxRemoveEvents
       /\ Sequencer_schedule(type, time, TRUE, -1, dest)

RemoveNext ==
    \/ Sequencer_register_client
    \/ ScheduleForClient
    \/ \E msec \in 1..MaxAdvance : Sequencer_process(msec)
    \/ \E f \in RemoveFilters : sequencer_remove_events(f[1], f[2], f[3])

(* ------------------------ router: bounds and inputs ------------------------ *)
\* RouterRule objects of one run
MaxRules == 2
\* rules one run adds to the chain before it clears it
MaxChain == 2

\* the rule types given to RouterRule(type)
RuleTypeInputs == {FLUID_MIDI_ROUTER_RULE_NOTE, FLUID_MIDI_ROUTER_RULE_CC}
RuleTypes ==
    {FLUID_MIDI_ROUTER_RULE_NOTE, FLUID_MIDI_ROUTER_RULE_CC,
     FLUID_MIDI_ROUTER_RULE_PROG_CHANGE, FLUID_MIDI_ROUTER_RULE_PITCH_BEND,
     FLUID_MIDI_ROUTER_RULE_CHANNEL_PRESSURE, FLUID_MIDI_ROUTER_RULE_KEY_PRESSURE}
\* (min, max, mul, add) given to set_chan / set_param1 / set_param2: a filter,
\* a doubling that leaves the legal range, a halving shifted below 0, min > max
AxisConfigs ==
    {[min |-> 4, max |-> 8, mul |-> 2, add |-> 0],
     [min |-> 0, max |-> 127, mul |-> 4, add |-> 0],
     [min |-> 1, max |-> 127, mul |-> 1, add |-> -3],
     [min |-> 9, max |-> 3, mul |-> 2, add |-> 0]}
\* values put through an axis
AxisInputs == {-1, 0, 3, 4, 5, 8, 9, 15, 16, 100, 127, 128}
\* the channel filters of the rules bound to a chain
ChainConfigs ==
    {[min |-> 4, max |-> 8, mul |-> 2, add |-> 1],
     [min |-> 9, max |-> 3, mul |-> 2, add |-> 0]}
\* MIDI events the driver delivers
MidiEvents ==
    {[type |-> t, chan |-> c, param1 |-> 60, param2 |-> 127] :
        t \in {FLUID_MIDI_ROUTER_RULE_NOTE, FLUID_MIDI_ROUTER_RULE_PROG_CHANGE},
        c \in {0, 4}}

(* ------------------- native router rule, as the engine ------------------- *)
\* the three axes of a rule
Axes == {"chan", "param1", "param2"}

\* the legal range of an axis is 0..AxisMax: channels 0..15, parameters 0..127
AxisMax(axis) == IF axis = "chan" THEN 15 ELSE 127

\* an axis rule that yields no value: the event is dropped
NoValue == -1

\* a multiplier is counted in halves: 2 is the multiplier 1.0
\* new_fluid_midi_router_rule: every axis passes its legal range unchanged
new_rule_axes ==
    [a \in Axes |-> [min |-> 0, max |-> AxisMax(a), mul |-> 2, add |-> 0]]

\* configure: the parameters replace the old ones unless min > max
rule_configure(old, c) == IF c.min > c.max THEN old ELSE c

\* round(v * multiplier), halves rounded up
rule_round(v, mul) == (v * mul + 1) \div 2

\* the value brought into the legal range 0..hi
rule_clamp(x, hi) == IF x < 0 THEN 0 ELSE IF x > hi THEN hi ELSE x

\* apply: inputs outside min..max are dropped, outputs are clamped
rule_apply(c, v, hi) ==
    IF v < c.min \/ v > c.max
    THEN NoValue
    ELSE rule_clamp(rule_round(v, c.mul) + c.add, hi)

(* ----------------------------- RouterRule ----------------------------- *)
\* if self.rule:
RouterRule_has_rule(handle) == handle # "None"

\* variant: multiplier and offset change places on the way to the engine
RouterRule_set_args_swapped(min, max, mul, add) ==
    [min |-> min, max |-> max, mul |-> add, add |-> mul]

\* set_chan / set_param1 / set_param2: (self.rule, min, max, mul, add)
RouterRule_set_args(min, max, mul, add) ==
    [min |-> min, max |-> max, mul |-> mul, add |-> add]

\* def set_chan(self, min=0, max=15, mul=1.0, add=0)
set_chan_defaults == [min |-> 0, max |-> 15, mul |-> 2, add |-> 0]

\* variant: the channel's maximum is the default of a parameter too
set_param1_defaults_chan == [min |-> 0, max |-> 15, mul |-> 2, add |-> 0]

\* def set_param1(self, min=0, max=127, mul=1.0, add=0)
set_param1_defaults == [min |-> 0, max |-> 127, mul |-> 2, add |-> 0]

\* def set_param2(self, min=0, max=127, mul=1.0, add=0)
set_param2_defaults == [min |-> 0, max |-> 127, mul |-> 2, add |-> 0]

\* variant: delete() keeps the handle
RouterRule_delete_handle_kept(handle) == handle

\* delete: self.rule = None
RouterRule_delete_handle(handle) == "None"

\* RouterRule(type): a new native rule behind a new object
NewRule(type) ==
    [type |-> type, rule |-> "live", axes |-> new_rule_axes, want |-> new_rule_axes,
     released |-> 0, late_calls |-> 0]

NoCfg == [min |-> 0, max |-> 0, mul |-> 0, add |-> 0]
\* a call's arguments, and what it found: the axis's parameters, the chain's size
NoRouterRequest ==
    [rule |-> 0, axis |-> "none", cfg |-> NoCfg, defaults |-> FALSE,
     before |-> NoCfg, had |-> 0]
NoApplied == [rule |-> 0, axis |-> "none", v |-> 0, out |-> NoValue]
NoEvent == [type |-> -1, chan |-> 0, param1 |-> 0, param2 |-> 0]
NoRouted == [in |-> NoEvent, forwarded |-> FALSE, out |-> NoEvent, engine_calls |-> 0,
             raised |-> FALSE]

\* one of set_chan, set_param1, set_param2 on rule object r
RouterRule_set(r, axis, defaults, c) ==
    /\ UNCHANGED <<playerVars, seqVars, synthVars, lifeVars>>
    /\ rt_lastOp' = "set"
    /\ rt_req' = [NoRouterRequest EXCEPT !.rule = r, !.axis = axis, !.cfg = c,
                     !.defaults = defaults, !.before = rules[r].axes[axis]]
    /\ rt_outcome' = "ok"
    /\ IF RouterRule_has_rule(rules[r].rule)
       THEN LET a == RouterRule_set_args(c.min, c.max, c.mul, c.add)
            IN rules' = [rules EXCEPT
                  ![r].axes[axis] = rule_configure(@, a),
                  ![r].want[axis] = rule_configure(@, c),
                  ![r].late_calls = @ + (IF rules[r].released > 0 THEN 1 ELSE 0)]
       ELSE UNCHANGED rules
    /\ applied' = NoApplied
    /\ routed' = NoRouted
    /\ UNCHANGED <<router, driver_handler, router_handler, chain>>

\* RouterRule.set_chan(min, max, mul, add), or set_chan() with its defaults
RouterRule_set_chan(r, defaults, c) ==
    RouterRule_set(r, "chan", defaults, IF defaults THEN set_chan_defaults ELSE c)

\* RouterRule.set_param1(min, max, mul, add), or set_param1()
RouterRule_set_param1(r, defaults, c) ==
    RouterRule_set(r, "param1", defaults, IF defaults THEN set_param1_defaults ELSE c)

\* RouterRule.set_param2(min, max, mul, add), or set_param2()
RouterRule_set_param2(r, defaults, c) ==
    RouterRule_set(r, "param2", defaults, IF defaults THEN set_param2_defaults ELSE c)

\* RouterRule.delete()
RouterRule_delete(r) ==
    /\ UNCHANGED <<playerVars, seqVars, synthVars, lifeVars>>
    /\ rt_lastOp' = "delete"
    /\ rt_req' = [NoRouterRequest EXCEPT !.rule = r]
    /\ rt_outcome' = "ok"
    /\ IF RouterRule_has_rule(rules[r].rule)
       THEN rules' = [rules EXCEPT
               ![r].released = @ + 1,
               ![r].late_calls = @ + (IF rules[r].released > 0 THEN 1 ELSE 0),
               ![r].rule = RouterRule_delete_handle(@)]
       ELSE UNCHANGED rules
    /\ applied' = NoApplied
    /\ routed' = NoRouted
    /\ UNCHANGED <<router, driver_handler, router_handler, chain>>

\* the engine puts value v through one axis of the native rule behind r
rule_apply_value(r, axis, v) ==
    /\ UNCHANGED <<playerVars, seqVars, synthVars, lifeVars>>
    /\ rules[r].released = 0
    /\ rt_lastOp' = "apply"
    /\ rt_req' = [NoRouterRequest EXCEPT !.rule = r, !.axis = axis]
    /\ rt_outcome' = "ok"
    /\ applied' = [rule |-> r, axis |-> axis, v |-> v,
                   out |-> rule_apply(rules[r].axes[axis], v, AxisMax(axis))]
    /\ routed' = NoRouted
    /\ UNCHANGED <<rules, router, driver_handler, router_handler, chain>>

(* ---------------------- native router, as the engine ---------------------- *)
\* 'clear all rules': no binding of any type
EmptyChain == [t \in RuleTypes |-> <<>>]

\* 'install default rules': the identity mapping, for every type
DefaultChain == [t \in RuleTypes |-> <<new_rule_axes>>]

\* the native router call named by call, on chain c
router_native(call, c) ==
    CASE call = "fluid_midi_router_clear_rules" -> EmptyChain
      [] call = "fluid_midi_router_set_default_rules" -> DefaultChain
      [] OTHER -> c

\* fluid_midi_router_add_rule: the rule joins the rules of its type, in
\* registration order
router_add(c, axes, type) == [c EXCEPT ![type] = Append(@, axes)]

\* the rule set that routes events of a type: the first one registered
route_rules(c, type) == IF c[type] = <<>> THEN new_rule_axes ELSE c[type][1]

\* the output of one axis of the routing rule set for event ev
route_axis(c, ev, axis) ==
    rule_apply(route_rules(c, ev.type)[axis], ev[axis], AxisMax(axis))

\* an event is forwarded when every axis yields a value
route_yields(c, ev) == \A a \in Axes : route_axis(c, ev, a) # NoValue

\* the forwarded event: the same kind, the outputs in place of the fields
route_out(c, ev) ==
    [type |-> ev.type, chan |-> route_axis(c, ev, "chan"),
     param1 |-> route_axis(c, ev, "param1"), param2 |-> route_axis(c, ev, "param2")]

\* rules a chain holds, over all types
chain_size(c) == LET n(t) == Len(c[t]) IN n(0) + n(1) + n(2) + n(3) + n(4) + n(5)

(* ----------------------- Synth: reverb and chorus ----------------------- *)
\* effect calls of one run
MaxFxCalls == 1
\* values given for an effect parameter: the negative default, zero, a positive one
FxValues == {-1, 0, 1}
\* levels given to set_reverb_level / set_chorus_level
FxLevels == {0, 1}
\* the value every effect parameter has in a new synth
FxInitial == 2
\* no mask reached the engine
NoMask == -1
NoFxRequest == [op |-> "none", args |-> <<>>, mask |-> NoMask]

\* bit i (counted from 1) of a mask
mask_bit(mask, i) == (mask \div (2 ^ (i - 1))) % 2 = 1

\* fluid_synth_set_reverb_full / _chorus_full: only the fields of the mask are set
fluid_synth_set_full(values, mask, args) ==
    [i \in DOMAIN values |-> IF mask_bit(mask, i) THEN args[i] ELSE values[i]]

\* fluid_synth_set_reverb / _chorus: every field is set
fluid_synth_set_all(values, args) == [i \in DOMAIN values |-> args[i]]

\* fluid_synth_set_reverb_level, fluid_synth_set_chorus_level
fluid_synth_set_level(call, e, level) ==
    IF call = "fluid_synth_set_reverb_level"
    THEN [e EXCEPT !.reverb = [@ EXCEPT ![4] = level]]
    ELSE [e EXCEPT !.chorus = [@ EXCEPT ![2] = level]]

\* fluid_synth_get_reverb_level, fluid_synth_get_chorus_level
fluid_synth_get_level(call, e) ==
    IF call = "fluid_synth_get_reverb_level" THEN e.reverb[4] ELSE e.chorus[2]

\* variant: a parameter of zero is taken as not given
set_reverb_mask_positive(roomsize, damping, width, level) ==
    (IF roomsize > 0 THEN 1 ELSE 0) + (IF damping > 0 THEN 2 ELSE 0)
       + (IF width > 0 THEN 4 ELSE 0) + (IF level > 0 THEN 8 ELSE 0)

\* set_reverb, fluidsynth-1: mask += 0b0001 ... 0b1000
set_reverb_mask(roomsize, damping, width, level) ==
    (IF roomsize >= 0 THEN 1 ELSE 0) + (IF damping >= 0 THEN 2 ELSE 0)
       + (IF width >= 0 THEN 4 ELSE 0) + (IF level >= 0 THEN 8 ELSE 0)

\* set_chorus, fluidsynth-1: mask += 0b00001 ... 0b10000
set_chorus_mask(nr, level, speed, depth, type) ==
    (IF nr >= 0 THEN 1 ELSE 0) + (IF level >= 0 THEN 2 ELSE 0)
       + (IF speed >= 0 THEN 4 ELSE 0) + (IF depth >= 0 THEN 8 ELSE 0)
       + (IF type >= 0 THEN 16 ELSE 0)

\* the native calls behind the level methods
set_reverb_level_call == "fluid_synth_set_reverb_level"
get_reverb_level_call == "fluid_synth_get_reverb_level"
set_chorus_level_call == "fluid_synth_set_reverb_level"
get_chorus_level_call == "fluid_synth_get_reverb_level"

\* Synth.set_reverb(roomsize, damping, width, level)
Synth_set_reverb(args) ==
    /\ UNCHANGED <<playerVars, seqVars, routerVars, lifeVars, note_req>>
    /\ fx_calls < MaxFxCalls
    /\ fx_calls' = fx_calls + 1
    /\ IF fx.plain
       THEN /\ fx' = [fx EXCEPT !.reverb = fluid_synth_set_all(@, args)]
            /\ fx_req' = [op |-> "set_reverb", args |-> args, mask |-> NoMask]
       ELSE LET mask == set_reverb_mask(args[1], args[2], args[3], args[4])
            IN /\ fx' = [fx EXCEPT !.reverb = fluid_synth_set_full(@, mask, args)]
               /\ fx_req' = [op |-> "set_reverb", args |-> args, mask |-> mask]

\* Synth.set_chorus(nr, level, speed, depth, type)
Synth_set_chorus(args) ==
    /\ UNCHANGED <<playerVars, seqVars, routerVars, lifeVars, note_req>>
    /\ fx_calls < MaxFxCalls
    /\ fx_calls' = fx_calls + 1
    /\ IF fx.plain
       THEN /\ fx' = [fx EXCEPT !.chorus = fluid_synth_set_all(@, args)]
            /\ fx_req' = [op |-> "set_chorus", args |-> args, mask |-> NoMask]
       ELSE LET mask == set_chorus_mask(args[1], args[2], args[3], args[4], args[5])
            IN /\ fx' = [fx EXCEPT !.chorus = fluid_synth_set_full(@, mask, args)]
               /\ fx_req' = [op |-> "set_chorus", args |-> args, mask |-> mask]

\* Synth.set_reverb_level(level)
Synth_set_reverb_level(level) ==
    /\ UNCHANGED <<playerVars, seqVars, routerVars, lifeVars, note_req>>
    /\ fx_calls < MaxFxCalls
    /\ fx_calls' = fx_calls + 1
    /\ fx' = fluid_synth_set_level(set_reverb_level_call, fx, level)
    /\ fx_req' = [op |-> "set_reverb_level", args |-> <<level>>, mask |-> NoMask]

\* Synth.set_chorus_level(level)
Synth_set_chorus_level(level) ==
    /\ UNCHANGED <<playerVars, seqVars, routerVars, lifeVars, note_req>>
    /\ fx_calls < MaxFxCalls
    /\ fx_calls' = fx_calls + 1
    /\ fx' = fluid_synth_set_level(set_chorus_level_call, fx, level)
    /\ fx_req' = [op |-> "set_chorus_level", args |-> <<level>>, mask |-> NoMask]

\* Synth.get_reverb_level(), Synth.get_chorus_level()
Synth_get_reverb_level == fluid_synth_get_level(get_reverb_level_call, fx)
Synth_get_chorus_level == fluid_synth_get_level(get_chorus_level_call, fx)

(* --------------------------- Synth: notes --------------------------- *)
\* channels, keys and velocities given to noteon / noteoff
NoteChans == {-1, 0, 1}
NoteValues == {-1, 0, 1, 126, 127, 128, 129}
\* the largest key and velocity noteon / noteoff let through
NoteLimit == 128
NoNote == [op |-> "none", chan |-> 0, key |-> 0, vel |-> 0, reached |-> FALSE,
           ret |-> "none"]

\* noteon: the three tests that return False
noteon_rejects(chan, key, vel) ==
    \/ key < 0 \/ key > NoteLimit
    \/ chan < 0
    \/ vel < 0 \/ vel > NoteLimit

\* noteoff: the two tests that return False
noteoff_rejects(chan, key) ==
    \/ key < 0 \/ key > NoteLimit
    \/ chan < 0

\* Synth.noteon(chan, key, vel)
Synth_noteon(chan, key, vel) ==
    /\ UNCHANGED <<playerVars, seqVars, routerVars, lifeVars, fx, fx_req, fx_calls>>
    /\ note_req' = [op |-> "noteon", chan |-> chan, key |-> key, vel |-> vel,
                    reached |-> ~noteon_rejects(chan, key, vel),
                    ret |-> IF noteon_rejects(chan, key, vel) THEN "False"
                            ELSE "fluid_synth_noteon"]

\* Synth.noteoff(chan, key)
Synth_noteoff(chan, key) ==
    /\ UNCHANGED <<playerVars, seqVars, routerVars, lifeVars, fx, fx_req, fx_calls>>
    /\ note_req' = [op |-> "noteoff", chan |-> chan, key |-> key, vel |-> 0,
                    reached |-> ~noteoff_rejects(chan, key),
                    ret |-> IF noteoff_rejects(chan, key) THEN "False"
                            ELSE "fluid_synth_noteoff"]

(* ----------------------- Synth: start and delete ----------------------- *)
\* start(cmd_handler=...): a command handler is made only where the engine
\* cannot be given its router
start_cmd_handler(cmd_handler, has_set_midi_router, before) ==
    IF cmd_handler /\ ~has_set_midi_router THEN "live" ELSE before

\* what each component was created from: <<release of the component, release of
\* what its constructor was handed>>
created_from ==
    {<<"delete_fluid_synth", "delete_fluid_settings">>,
     <<"delete_fluid_audio_driver", "delete_fluid_settings">>,
     <<"delete_fluid_audio_driver", "delete_fluid_synth">>,
     <<"delete_fluid_midi_router", "delete_fluid_settings">>,
     <<"delete_fluid_midi_router", "delete_fluid_synth">>,
     <<"delete_fluid_midi_driver", "delete_fluid_settings">>,
     <<"delete_fluid_midi_driver", "delete_fluid_midi_router">>,
     <<"delete_fluid_cmd_handler", "delete_fluid_synth">>,
     <<"delete_fluid_cmd_handler", "delete_fluid_midi_router">>}

\* Synth.delete: the native delete calls, in order
Synth_delete_calls(audio_driver, midi_driver, rt, cmd_handler) ==
    (IF audio_driver # "None" THEN <<"delete_fluid_audio_driver">> ELSE <<>>) \o
    (IF midi_driver # "None" THEN <<"delete_fluid_midi_driver">> ELSE <<>>) \o
    (IF rt # "None" THEN <<"delete_fluid_midi_router">> ELSE <<>>) \o
    (IF cmd_handler # "None" THEN <<"delete_fluid_cmd_handler">> ELSE <<>>) \o
    <<"delete_fluid_synth", "delete_fluid_settings">>

\* Synth.delete()
Synth_delete ==
    /\ UNCHANGED <<playerVars, seqVars, routerVars, synthVars>>
    /\ deleted' = Synth_delete_calls(parts.audio_driver, parts.midi_driver, router,
                                     parts.cmd_handler)
    /\ UNCHANGED parts

\* a new Synth on an engine with the plain effect calls and set_midi_router
InitSynth ==
    /\ fx = [plain |-> TRUE, reverb |-> [i \in 1..4 |-> FxInitial],
             chorus |-> [i \in 1..5 |-> FxInitial]]
    /\ fx_req = NoFxRequest
    /\ fx_calls = 0
    /\ note_req = NoNote
    /\ parts = [audio_driver |-> "None", midi_driver |-> "None", cmd_handler |-> "None",
                has_set_midi_router |-> TRUE]
    /\ deleted = <<>>

(* -------------------------- Synth: the router -------------------------- *)
\* variant: the MIDI driver hands its events straight to the synth
start_driver_handler_synth == "fluid_synth_handle_midi_event"

\* Synth.start: new_fluid_midi_driver(settings, handler, self.router)
start_driver_handler == "fluid_midi_router_handle_midi_event"

\* Synth.start: new_fluid_midi_router(settings, handler, self.synth)
start_router_handler == "fluid_synth_handle_midi_event"

\* variant: router_clear installs the default rules
router_clear_call_default == "fluid_midi_router_set_default_rules"

\* Synth.router_clear: the native call
router_clear_call == "fluid_midi_router_clear_rules"

\* Synth.router_default: the native call
router_default_call == "fluid_midi_router_set_default_rules"

\* variant: the rule's handle is not looked at
add_rule_raises_never(handle) == FALSE

\* Synth.router_add_rule: if rule.rule is None: raise ValueError
add_rule_raises(handle) == handle = "None"

\* Synth.start(midi_driver=...): a router between the MIDI driver and the synth
Synth_start ==
    /\ UNCHANGED <<playerVars, seqVars, synthVars>>
    /\ rt_lastOp' = "start"
    /\ rt_req' = NoRouterRequest
    /\ rt_outcome' = "ok"
    /\ router' = "live"
    /\ chain' = EmptyChain
    /\ router_handler' = start_router_handler
    /\ driver_handler' = start_driver_handler
    /\ applied' = NoApplied
    /\ routed' = NoRouted
    /\ parts' = [parts EXCEPT !.midi_driver = "live"]
    /\ UNCHANGED <<rules, deleted>>

\* Synth.start(driver, midi_driver, cmd_handler): each given or not
Synth_start_with(driver, midi_driver, cmd_handler) ==
    /\ UNCHANGED <<playerVars, seqVars, synthVars>>
    /\ rt_lastOp' = "start"
    /\ rt_req' = NoRouterRequest
    /\ rt_outcome' = "ok"
    /\ IF midi_driver
       THEN /\ router' = "live"
            /\ chain' = EmptyChain
            /\ router_handler' = start_router_handler
            /\ driver_handler' = start_driver_handler
       ELSE UNCHANGED <<router, chain, router_handler, driver_handler>>
    /\ applied' = NoApplied
    /\ routed' = NoRouted
    /\ parts' = [parts EXCEPT
                   !.audio_driver = IF driver THEN "live" ELSE @,
                   !.midi_driver = IF midi_driver THEN "live" ELSE @,
                   !.cmd_handler = start_cmd_handler(cmd_handler,
                                                    parts.has_set_midi_router, @)]
    /\ UNCHANGED <<rules, deleted>>

\* Synth.router_clear()
Synth_router_clear ==
    /\ UNCHANGED <<playerVars, seqVars, synthVars, lifeVars>>
    /\ rt_lastOp' = "router_clear"
    /\ rt_req' = [NoRouterRequest EXCEPT !.had = chain_size(chain)]
    /\ rt_outcome' = "ok"
    /\ chain' = IF router # "None" THEN router_native(router_clear_call, chain)
                ELSE chain
    /\ applied' = NoApplied
    /\ routed' = NoRouted
    /\ UNCHANGED <<rules, router, driver_handler, router_handler>>

\* Synth.router_default()
Synth_router_default ==
    /\ UNCHANGED <<playerVars, seqVars, synthVars, lifeVars>>
    /\ rt_lastOp' = "router_default"
    /\ rt_req' = [NoRouterRequest EXCEPT !.had = chain_size(chain)]
    /\ rt_outcome' = "ok"
    /\ chain' = IF router # "None" THEN router_native(router_default_call, chain)
                ELSE chain
    /\ applied' = NoApplied
    /\ routed' = NoRouted
    /\ UNCHANGED <<rules, router, driver_handler, router_handler>>

\* Synth.router_add_rule(rule)
Synth_router_add_rule(r) ==
    /\ UNCHANGED <<playerVars, seqVars, synthVars, lifeVars>>
    /\ rt_lastOp' = "router_add_rule"
    /\ rt_req' = [NoRouterRequest EXCEPT !.rule = r, !.had = chain_size(chain)]
    /\ IF router = "None"
       THEN rt_outcome' = "ok" /\ UNCHANGED chain
       ELSE IF add_rule_raises(rules[r].rule)
       THEN rt_outcome' = "ValueError" /\ UNCHANGED chain
       ELSE IF rules[r].rule = "None"
       THEN \* the engine is handed no rule: it adds nothing
            rt_outcome' = "ok" /\ UNCHANGED chain
       ELSE /\ rt_outcome' = "ok"
            /\ chain' = router_add(chain, rules[r].axes, rules[r].type)
    /\ applied' = NoApplied
    /\ routed' = NoRouted
    /\ UNCHANGED <<rules, router, driver_handler, router_handler>>

\* the MIDI driver delivers event ev to the handler Synth.start gave it
MidiEvent(ev) ==
    /\ UNCHANGED <<playerVars, seqVars, synthVars, lifeVars>>
    /\ router # "None"
    /\ rt_lastOp' = "midi_event"
    /\ rt_req' = NoRouterRequest
    /\ rt_outcome' = "ok"
    /\ routed' =
         IF driver_handler = "fluid_midi_router_handle_midi_event"
         THEN IF route_yields(chain, ev)
              THEN [in |-> ev, forwarded |-> TRUE, out |-> route_out(chain, ev),
                    engine_calls |->
                       IF router_handler = "fluid_synth_handle_midi_event"
                       THEN 1 ELSE 0,
                    raised |-> FALSE]
              ELSE [in |-> ev, forwarded |-> FALSE, out |-> NoEvent,
                    engine_calls |-> 0, raised |-> FALSE]
         ELSE [in |-> ev, forwarded |-> TRUE, out |-> ev, engine_calls |-> 1,
               raised |-> FALSE]
    /\ applied' = NoApplied
    /\ UNCHANGED <<rules, router, driver_handler, router_handler, chain>>

InitRouter ==
    /\ rules \in [1..MaxRules -> {NewRule(t) : t \in RuleTypeInputs}]
    /\ applied = NoApplied
    /\ router = "None"
    /\ driver_handler = "none"
    /\ router_handler = "none"
    /\ chain = EmptyChain
    /\ routed = NoRouted
    /\ rt_lastOp = "init"
    /\ rt_outcome = "none"
    /\ rt_req = NoRouterRequest

\* one rule object: its axes configured, put to use, deleted
RuleNext ==
    \/ \E d \in BOOLEAN, c \in AxisConfigs : RouterRule_set_chan(1, d, c)
    \/ \E d \in BOOLEAN, c \in AxisConfigs : RouterRule_set_param1(1, d, c)
    \/ \E d \in BOOLEAN, c \in AxisConfigs : RouterRule_set_param2(1, d, c)
    \/ RouterRule_delete(1)
    \/ \E a \in Axes, v \in AxisInputs : rule_apply_value(1, a, v)

\* rules bound to a router's chain, and MIDI events from the driver
AddRule ==
    \E r \in 1..MaxRules :
       chain_size(chain) < MaxChain /\ Synth_router_add_rule(r)

RouterNext ==
    \/ Synth_start
    \/ Synth_router_clear
    \/ Synth_router_default
    \/ AddRule
    \/ \E r \in 1..MaxRules : RouterRule_delete(r)
    \/ \E r \in 1..MaxRules, c \in ChainConfigs : RouterRule_set_chan(r, FALSE, c)
    \/ \E ev \in MidiEvents : MidiEvent(ev)

(* ------------------------------- specs -------------------------------- *)
\* timer(time=1, dest) for a client that is or was registered
ScheduleTimer ==
    \E dest \in 0..(MaxClients - 1) :
       /\ seq_serial < MaxEvents
       /\ Sequencer_schedule(FLUID_SEQ_TIMER, 1, TRUE, -1, dest)

ClientNext ==
    \/ Sequencer_register_client
    \/ Sequencer_register_fluidsynth
    \/ \E id \in 0..(MaxClients - 1) : sequencer_unregister_client(id)
    \/ ScheduleTimer
    \/ \E msec \in 1..MaxAdvance : Sequencer_process(msec)

\* a synth with the engine's defaults and a player on it, and a sequencer
\* and rule objects for note events
Init ==
    /\ InitPlayer
    /\ InitSeq
    /\ seq_ctor = [time_scale |-> NoScale, use_system_timer |-> FALSE]
    /\ InitRouter
    /\ InitSynth
    /\ \A r \in 1..MaxRules : rules[r].type = FLUID_MIDI_ROUTER_RULE_NOTE

\* the same with one choice of playlist, engine version and period size
InitOne ==
    /\ InitPlayer
    /\ InitSeq
    /\ seq_ctor = [time_scale |-> NoScale, use_system_timer |-> FALSE]
    /\ InitRouter
    /\ InitSynth
    /\ total_ticks = 0
    /\ has_seek
    /\ settings = InitSettings(64)
    /\ \A r \in 1..MaxRules : rules[r].type = FLUID_MIDI_ROUTER_RULE_NOTE

\* the same with rule objects of either type
InitRules ==
    /\ InitPlayer
    /\ InitSeq
    /\ seq_ctor = [time_scale |-> NoScale, use_system_timer |-> FALSE]
    /\ InitRouter
    /\ InitSynth
    /\ total_ticks = 0
    /\ has_seek
    /\ settings = InitSettings(64)

\* the player and its offline rendering
PlayerSpec == Init /\ [][PlayerNext]_vars

\* the sequencer, driven by process() calls: scheduling and dispatch
SeqSpec == InitOne /\ [][SeqNext]_vars

\* the sequencer: cancelling pending entries
RemoveSpec == InitOne /\ [][RemoveNext]_vars

\* the sequencer's client table
ClientSpec == InitOne /\ [][ClientNext]_vars

\* one router rule
RuleSpec == InitRules /\ [][RuleNext]_vars

\* the router's chain
RouterSpec == InitRules /\ [][RouterNext]_vars

\* get_tick: fluid_sequencer_get_tick
Sequencer_get_tick == seq_tick

\* events one run of the clock schedules
MaxTickEvents == 2

\* note_on for client 0, at once or one tick ahead
ScheduleSoon ==
    \E time \in {NoTime, 1} :
       /\ seq_serial < MaxTickEvents
       /\ Sequencer_schedule(FLUID_SEQ_NOTEON, time, FALSE, -1, 0)

\* the clock: every call that the claims on the tick name, and the engine's timer
TickNext ==
    \/ Sequencer_register_client
    \/ ScheduleSoon
    \/ \E msec \in 1..MaxAdvance : Sequencer_process(msec)
    \/ sequencer_remove_events(-1, 0, -1)
    \/ \E scale \in TimeScales : sequencer_set_time_scale(scale)
    \/ sequencer_timer

\* a sequencer constructed with any of the scales, with or without the timer
InitTick ==
    /\ InitPlayer
    /\ InitSeq
    /\ InitRouter
    /\ InitSynth
    /\ total_ticks = 0
    /\ has_seek
    /\ settings = InitSettings(64)
    /\ \A r \in 1..MaxRules : rules[r].type = FLUID_MIDI_ROUTER_RULE_NOTE

TickSpec == InitTick /\ [][TickNext]_vars

\* reverb and chorus
FxNext ==
    \/ \E args \in [1..4 -> FxValues] : Synth_set_reverb(args)
    \/ \E args \in [1..5 -> FxValues] : Synth_set_chorus(args)
    \/ \E level \in FxLevels : Synth_set_reverb_level(level)
    \/ \E level \in FxLevels : Synth_set_chorus_level(level)

\* a new synth on an engine with or without the plain effect calls
InitFx ==
    /\ InitPlayer
    /\ InitSeq
    /\ seq_ctor = [time_scale |-> NoScale, use_system_timer |-> FALSE]
    /\ InitRouter
    /\ total_ticks = 0
    /\ has_seek
    /\ settings = InitSettings(64)
    /\ \A r \in 1..MaxRules : rules[r].type = FLUID_MIDI_ROUTER_RULE_NOTE
    /\ fx \in [plain : BOOLEAN, reverb : {[i \in 1..4 |-> FxInitial]},
                chorus : {[i \in 1..5 |-> FxInitial]}]
    /\ fx_req = NoFxRequest
    /\ fx_calls = 0
    /\ note_req = NoNote
    /\ parts = [audio_driver |-> "None", midi_driver |-> "None", cmd_handler |-> "None",
                has_set_midi_router |-> TRUE]
    /\ deleted = <<>>

FxSpec == InitFx /\ [][FxNext]_vars

\* notes
NoteNext ==
    \/ \E chan \in NoteChans, key \in NoteValues, vel \in NoteValues :
          Synth_noteon(chan, key, vel)
    \/ \E chan \in NoteChans, key \in NoteValues : Synth_noteoff(chan, key)

NoteSpec == InitOne /\ [][NoteNext]_vars

\* a synth started once, its router used, and deleted
StartOnce ==
    \E driver \in BOOLEAN, midi_driver \in BOOLEAN, cmd_handler \in BOOLEAN :
       /\ rt_lastOp = "init"
       /\ deleted = <<>>
       /\ Synth_start_with(driver, midi_driver, cmd_handler)

AddRuleAlive == deleted = <<>> /\ AddRule

RouterDefaultAlive == deleted = <<>> /\ Synth_router_default

DeleteOnce == deleted = <<>> /\ Synth_delete

LifeNext ==
    \/ StartOnce
    \/ AddRuleAlive
    \/ RouterDefaultAlive
    \/ DeleteOnce

\* a new synth on an engine with or without fluid_synth_set_midi_router
InitLife ==
    /\ InitPlayer
    /\ InitSeq
    /\ seq_ctor = [time_scale |-> NoScale, use_system_timer |-> FALSE]
    /\ InitRouter
    /\ total_ticks = 0
    /\ has_seek
    /\ settings = InitSettings(64)
    /\ fx = [plain |-> TRUE, reverb |-> [i \in 1..4 |-> FxInitial],
             chorus |-> [i \in 1..5 |-> FxInitial]]
    /\ fx_req = NoFxRequest
    /\ fx_calls = 0
    /\ note_req = NoNote
    /\ parts \in [audio_driver : {"None"}, midi_driver : {"None"}, cmd_handler : {"None"},
                   has_set_midi_router : BOOLEAN]
    /\ deleted = <<>>

LifeSpec == InitLife /\ [][LifeNext]_vars

Next == PlayerNext \/ SeqNext \/ RemoveNext \/ ClientNext \/ RuleNext \/ RouterNext
           \/ TickNext \/ FxNext \/ NoteNext \/ LifeNext
Spec == Init /\ [][Next]_vars

(* ======================= Player.render: claims ======================= *)
RenderError == "OSError: renderer error"
CallbackError == "callback error"
UnknownFormat == "OSError: unknown file type"

\* render has left its block loop and handed control back to its caller
RenderLeft ==
    pc = "idle" /\ lastOp = "render_finally"
                /\ outcome \in {"returned", RenderError, CallbackError}

\* C1: whenever render's block loop was left (the player was Done or was
\* stopped from outside, a block failed, or the progress callback raised),
\* then by the time render returns or re-raises the player was stopped, join
\* was called, 'player.timing-source' is 'system' again, 'synth.lock-memory'
\* is 1 again, and the file renderer was deleted exactly once - in that order.
C1_CleanupOnEveryExit ==
    RenderLeft =>
        /\ cleanup = <<"fluid_player_stop", "fluid_synth_all_notes_off",
                       "fluid_player_join", "fluid_settings_setstr",
                       "fluid_settings_setint", "delete_fluid_file_renderer">>
        /\ settings["player.timing-source"] = "system"
        /\ settings["synth.lock-memory"] = 1
        /\ renderer = "deleted"
        /\ released = 1

\* a render whose second block failed has been cleaned up and has re-raised
C1_Witness ==
    RenderLeft /\ outcome = RenderError /\ blocks = 1 /\ requests = 2

\* C2: a render that returns after N successful block productions returns
\* N * period_size, has requested no other block, and has called the progress
\* callback (if one was given) exactly N times, the k-th time with
\* k * period_size frames: strictly increasing counts.
C2_FramesAndProgress ==
    (RenderLeft /\ outcome = "returned") =>
        /\ requests = blocks
        /\ retval = blocks * period_size
        /\ Len(cbLog) = (IF callback THEN blocks ELSE 0)
        /\ \A k \in 1..Len(cbLog) : cbLog[k] = k * period_size
        /\ \A k \in 1..(Len(cbLog) - 1) : cbLog[k] < cbLog[k + 1]

\* a render with a callback returned after two blocks
C2_Witness ==
    RenderLeft /\ outcome = "returned" /\ callback /\ blocks = 2

\* C3: when the engine fails to produce the k-th block (k - 1 blocks were
\* produced before it), render is on its way out with the renderer error or
\* has raised it: the frame counter stands at (k - 1) * period_size, the
\* callback was called k - 1 times, no block was requested after the k-th,
\* and no frame count is returned.
C3_BlockFailure ==
    (requests # blocks) =>
        /\ \/ pc = "finally" /\ pending = RenderError
           \/ pc = "idle" /\ outcome = RenderError
        /\ requests = blocks + 1
        /\ num_samples = blocks * period_size
        /\ Len(cbLog) = (IF callback THEN blocks ELSE 0)
        /\ outcome # "returned"
        /\ retval = 0

\* the third block failed after two were produced and reported
C3_Witness ==
    /\ pc = "idle" /\ outcome = RenderError
    /\ requests = 3 /\ blocks = 2 /\ callback /\ Len(cbLog) = 2

\* C4: a render call whose file type is given and is not one of
\* AUDIO_FILE_TYPES raises the unknown-file-type error with every setting
\* (file name, timing source, memory locking, file type) as it was before the
\* call, and without a renderer.
C4_UnknownFormatFirst ==
    (lastOp = "render" /\ req_filetype # NoneVal
                       /\ req_filetype \notin AUDIO_FILE_TYPES) =>
        /\ outcome = UnknownFormat
        /\ settings = preSettings
        /\ renderer = "null"
        /\ pc = "idle"

\* an unknown file type was refused while the engine was in realtime settings
C4_Witness ==
    /\ lastOp = "render" /\ req_filetype = "mp3" /\ outcome = UnknownFormat
    /\ settings["player.timing-source"] = "system"
    /\ settings["synth.lock-memory"] = 1

(* ======================== Player state: claims ======================= *)
\* one step of the player, as C9 allows it
PlayerStep ==
    /\ (status' # status) =>
          \/ /\ status = FLUID_PLAYER_READY /\ status' = FLUID_PLAYER_PLAYING
             /\ lastOp' = "play"
          \/ /\ status = FLUID_PLAYER_PLAYING /\ status' = FLUID_PLAYER_DONE
             /\ \/ lastOp' \in {"stop", "render_finally"}
                \/ /\ lastOp' \in {"tick", "render_block"}
                   /\ position' >= total_ticks
          \/ /\ status = FLUID_PLAYER_DONE /\ status' = FLUID_PLAYER_READY
             /\ lastOp' = "seek"
    /\ (lastOp' = "play" /\ outcome' = "ok" /\ status = FLUID_PLAYER_READY)
          => (status' = FLUID_PLAYER_PLAYING)
    /\ (lastOp' \in {"stop", "render_finally"} /\ status = FLUID_PLAYER_PLAYING)
          => (status' = FLUID_PLAYER_DONE)
    /\ (lastOp' = "seek" /\ outcome' = "ok" /\ status = FLUID_PLAYER_DONE)
          => (status' = FLUID_PLAYER_READY)

\* C9: the player's state is always Ready, Playing or Done.  play takes Ready
\* to Playing; stop (also the one in render's finally block) and the end of
\* the streams take Playing to Done; seek takes Done to Ready; and the state
\* changes in no other way.
C9_StateMachine ==
    /\ [](status \in {FLUID_PLAYER_READY, FLUID_PLAYER_PLAYING, FLUID_PLAYER_DONE})
    /\ [][PlayerStep]_vars

\* a player that was Done has been taken back to Ready by a seek
C9_Witness ==
    /\ lastOp = "seek" /\ outcome = "ok"
    /\ preStatus = FLUID_PLAYER_DONE /\ status = FLUID_PLAYER_READY

\* C10: every Player.stop() - here: every one made while Playing, and every
\* other one - calls the native stop and then all-notes-off with channel -1
\* (every channel), and returns what the native stop returned.
C10_StopReleasesNotes ==
    (lastOp \in {"stop", "render_finally"}) =>
        /\ stop_calls = <<"fluid_player_stop", "fluid_synth_all_notes_off">>
        /\ notes_off_chan = -1
        /\ stopRet = engStopRet

\* stop() was called on a Playing player and the native stop reported failure
C10_Witness ==
    /\ lastOp = "stop" /\ preStatus = FLUID_PLAYER_PLAYING
    /\ engStopRet = FLUID_FAILED /\ stopRet = FLUID_FAILED

(* ========================= Sequencer: claims ========================= *)
ScheduleFailed == "OSError: scheduling failed"

\* entry a goes before entry b: the smaller tick the caller asked for, and
\* within one tick the earlier schedule call
Before(a, b) == a.want < b.want \/ (a.want = b.want /\ a.id < b.id)

\* the queued entries that were dispatched were dispatched in order, and
\* before every entry that is still pending
DispatchedInOrder ==
    /\ \A i, j \in 1..Len(seq_log) :
          (i < j /\ seq_log[i].queued /\ seq_log[j].queued)
             => Before(seq_log[i], seq_log[j])
    /\ \A i \in 1..Len(seq_log), j \in 1..Len(seq_queue) :
          seq_log[i].queued => Before(seq_log[i], seq_queue[j])

\* C5 as stated, for every event a schedule call was given, with or without
\* a time: smaller ticks first, and within a tick in the order of the calls.
C5_EveryEventInOrder ==
    /\ \A i, j \in 1..Len(seq_log) : (i < j) => Before(seq_log[i], seq_log[j])
    /\ \A i \in 1..Len(seq_log), j \in 1..Len(seq_queue) :
          Before(seq_log[i], seq_queue[j])

\* C5 (amended): for any sequence of schedule and process calls, among the
\* entries scheduled with a time, one with a smaller scheduled tick is
\* dispatched before one with a larger tick, and entries of one tick are
\* dispatched in the order they were scheduled.  An event scheduled without a
\* time is dispatched at once, ahead of the entries pending for that tick.
C5_DispatchOrder == DispatchedInOrder

\* scheduled at ticks 2, 1, 1 in that order, dispatched as 1, 1, 2 with the
\* two tick-1 entries in call order
C5_Witness ==
    /\ Len(seq_log) = 3
    /\ \A i \in 1..3 : seq_log[i].queued
    /\ <<seq_log[1].id, seq_log[2].id, seq_log[3].id>> = <<2, 3, 1>>
    /\ <<seq_log[1].want, seq_log[2].want, seq_log[3].want>> = <<1, 1, 2>>

\* a schedule call at an absolute time before the current tick
PastStep ==
    /\ seq_lastOp' = "schedule"
    /\ seq_req'.time # NoTime
    /\ seq_req'.absolute
    /\ seq_req'.time < seq_tick

\* C6: a schedule call with absolute=True and a time before the current tick
\* raises, and the pending entries (and the dispatched ones) are as before.
C6_ScheduleInPast ==
    [][PastStep => /\ seq_outcome' = ScheduleFailed
                   /\ seq_queue' = seq_queue
                   /\ seq_log' = seq_log
                   /\ seq_serial' = seq_serial]_vars

\* a registered client's event at absolute tick 1 was refused at tick 2 or
\* later, with an entry pending
C6_Witness ==
    /\ seq_lastOp = "schedule" /\ seq_outcome = ScheduleFailed
    /\ seq_req.absolute /\ seq_req.time = 1 /\ seq_req.dest \in seq_clients
    /\ seq_tick >= 2
    /\ Len(seq_queue) >= 1

\* the serial numbers of a sequence of entries
Ids(q) == {q[i].id : i \in 1..Len(q)}

\* C7: when process returns, every entry scheduled at or before the new
\* current tick has been dispatched and is no longer pending, every entry
\* scheduled later is pending and was not dispatched, and no entry is ever
\* dispatched twice.
C7_AdvanceDispatchesDue ==
    /\ (seq_lastOp = "process") =>
          \A i \in 1..Len(seq_queue) : seq_queue[i].want > seq_tick
    /\ \A i \in 1..Len(seq_log) : seq_log[i].want <= seq_tick
    /\ \A i, j \in 1..Len(seq_log) : (i # j) => seq_log[i].id # seq_log[j].id
    /\ \A i, j \in 1..Len(seq_queue) : (i # j) => seq_queue[i].id # seq_queue[j].id
    /\ Ids(seq_log) \cap Ids(seq_queue) = {}
    /\ Ids(seq_log) \cup Ids(seq_queue) \cup seq_removed = 1..seq_serial

\* a process call dispatched two entries and left a later one pending
C7_Witness ==
    /\ seq_lastOp = "process"
    /\ Len(seq_log) = 2 /\ seq_log[1].queued /\ seq_log[2].queued
    /\ Len(seq_queue) = 1 /\ seq_queue[1].want > seq_tick

\* the filter of remove_events: -1 stands for any source, destination, type
Filtered(e, r) ==
    /\ (r.src = -1 \/ e.src = r.src)
    /\ (r.dest = -1 \/ e.dest = r.dest)
    /\ (r.type = -1 \/ e.type = r.type)

RemoveStep ==
    (seq_lastOp' = "remove_events") =>
        /\ seq_log' = seq_log
        /\ seq_queue' = SelectSeq(seq_queue, LAMBDA e : ~Filtered(e, seq_req'))
        /\ seq_removed' = seq_removed \cup
              {e.id : e \in {seq_queue[i] : i \in {j \in 1..Len(seq_queue) :
                                                   Filtered(seq_queue[j], seq_req')}}}

\* C8: remove_events discards exactly the pending entries its filter matches
\* and dispatches nothing; a discarded entry is never dispatched; the other
\* entries stay pending in their order and are dispatched in that order.
C8_RemoveEvents ==
    /\ [][RemoveStep]_vars
    /\ [](Ids(seq_log) \cap seq_removed = {})
    /\ [](Ids(seq_queue) \cap seq_removed = {})
    /\ []DispatchedInOrder

\* two entries for client 0 and two for client 1 were pending; the filter
\* dest=0 left exactly the two for client 1
C8_Witness ==
    /\ seq_lastOp = "remove_events"
    /\ seq_req.dest = 0 /\ seq_req.src = -1 /\ seq_req.type = -1
    /\ Cardinality(seq_removed) = 2
    /\ Len(seq_queue) = 2
    /\ \A i \in 1..Len(seq_queue) : seq_queue[i].dest = 1

\* the two entries that outlived the removal were dispatched, in order
C8_SurvivorsDispatched ==
    /\ Cardinality(seq_removed) = 2
    /\ Len(seq_log) = 2 /\ seq_log[1].dest = 1 /\ seq_log[2].dest = 1
    /\ seq_queue = <<>>

(* ========================= Player.play: claims ======================== *)
NotSupported == "NotImplementedError"

\* the last call was play(play_offset), begun at prePosition
PlayCalled == lastOp = "play" /\ pc = "idle"

\* C11: play(offset) seeks to offset exactly when the position differs from
\* offset, the seek comes before the native play, and a play(offset) that
\* returned without an error leaves the player Playing at position offset.
C11_PlaySeeksFirst ==
    PlayCalled =>
        /\ ("fluid_player_seek" \in {play_calls[i] : i \in 1..Len(play_calls)})
              <=> (play_offset # prePosition)
        /\ (play_offset # prePosition /\ outcome = "ok" =>
              play_calls = <<"fluid_player_seek", "fluid_player_play">>)
        /\ (outcome = "ok" =>
              status = FLUID_PLAYER_PLAYING /\ position = play_offset)

\* C12: on an engine without fluid_player_seek, play(offset) away from the
\* current position fails with NotSupported (NotImplementedError) and leaves
\* the player's state and position as they were.
C12_PlayWithoutSeek ==
    PlayCalled /\ ~has_seek /\ play_offset # prePosition =>
        /\ outcome = NotSupported
        /\ status = preStatus
        /\ position = prePosition

(* ========================= RouterRule: claims ========================= *)
\* what the specification's apply gives for parameters w, input v, range 0..hi
Expected(w, v, hi) ==
    IF v < w.min \/ v > w.max THEN NoValue
    ELSE LET raw == rule_round(v, w.mul) + w.add
         IN IF raw < 0 THEN 0 ELSE IF raw > hi THEN hi ELSE raw

\* C13: on every axis, a value v put through a rule comes out as nothing when
\* v < min or v > max of the parameters the axis was configured with, and
\* otherwise as round(v * multiplier) + offset brought into the axis's legal
\* range (0..15 for the channel, 0..127 for a parameter): inputs out of range
\* are dropped, outputs out of range are clamped.
C13_ApplyFiltersThenClamps ==
    applied.rule # 0 =>
        LET w == rules[applied.rule].want[applied.axis]
            hi == IF applied.axis = "chan" THEN 15 ELSE 127
        IN /\ applied.out = Expected(w, applied.v, hi)
           /\ (applied.v < w.min \/ applied.v > w.max) <=> (applied.out = NoValue)
           /\ applied.out # NoValue => applied.out \in 0..hi

\* channel 8 doubled leaves 0..15 and comes out as 15
C13_Witness ==
    /\ applied.rule = 1 /\ applied.axis = "chan" /\ applied.v = 8
    /\ rules[1].want["chan"] = [min |-> 0, max |-> 127, mul |-> 4, add |-> 0]
    /\ applied.out = 15

\* the last call was set_chan(), set_param1() or set_param2() on a live rule,
\* with the defaults or with the same values given
IdentityConfigured ==
    /\ rt_lastOp = "set"
    /\ rules[rt_req.rule].rule # "None"
    /\ \/ rt_req.defaults
       \/ rt_req.cfg = [min |-> 0, max |-> (IF rt_req.axis = "chan" THEN 15 ELSE 127),
                        mul |-> 2, add |-> 0]

\* C14: an axis configured with multiplier 1, offset 0, min 0 and max the
\* axis's legal maximum (the defaults of set_chan, set_param1, set_param2)
\* maps every legal input to itself and drops none.
C14_DefaultsAreIdentity ==
    IdentityConfigured =>
        LET hi == IF rt_req.axis = "chan" THEN 15 ELSE 127
        IN \A v \in 0..hi :
              rule_apply(rules[rt_req.rule].axes[rt_req.axis], v, hi) = v

\* set_param1() on a rule whose first parameter had a filter
C14_Witness ==
    /\ IdentityConfigured /\ rt_req.axis = "param1" /\ rt_req.defaults
    /\ rt_req.before = [min |-> 4, max |-> 8, mul |-> 2, add |-> 0]

InvalidRange == "InvalidRange"

\* C15: configuring an axis with min > max fails with InvalidRange and leaves
\* the axis's parameters as they were, so that min <= max holds on every axis
\* of every rule; configuring with min <= max never fails.
C15_InvalidRange ==
    /\ \A r \in 1..MaxRules : \A a \in Axes : rules[r].axes[a].min <= rules[r].axes[a].max
    /\ (rt_lastOp = "set" /\ rules[rt_req.rule].rule # "None") =>
          IF rt_req.cfg.min > rt_req.cfg.max
          THEN /\ rt_outcome = InvalidRange
               /\ rules[rt_req.rule].axes[rt_req.axis] = rt_req.before
          ELSE rt_outcome = "ok"

\* C16: once delete() was called on a rule object, set_chan, set_param1,
\* set_param2 and delete change nothing: the native rule is released exactly
\* once, and no native call is ever made on a released rule.
C16_DeletedRuleIsInert ==
    \A r \in 1..MaxRules :
       /\ rules[r].released <= 1
       /\ rules[r].late_calls = 0
       /\ (rules[r].rule = "None") <=> (rules[r].released = 1)
       /\ (rt_lastOp = "set" /\ rt_req.rule = r /\ rules[r].rule = "None") =>
             rules[r].axes[rt_req.axis] = rt_req.before

\* set_chan was called on a rule that had been deleted
C16_Witness ==
    /\ rt_lastOp = "set" /\ rt_req.rule = 1 /\ rt_req.axis = "chan"
    /\ rules[1].rule = "None" /\ rules[1].released = 1
    /\ rt_req.cfg = [min |-> 4, max |-> 8, mul |-> 2, add |-> 0]
    /\ rules[1].axes["chan"] = set_chan_defaults

(* ========================== the router: claims ========================= *)
InvalidRule == "ValueError"

\* router_add_rule is called, on a Synth that has a router, with a rule object
\* that was deleted
AddDeletedStep ==
    /\ rt_lastOp' = "router_add_rule"
    /\ router # "None"
    /\ rules[rt_req'.rule].rule = "None"

\* C17: adding a deleted rule to a chain (Synth.router_add_rule with a rule
\* whose delete() was called, on a Synth that has a router) fails with
\* InvalidRule (ValueError) and leaves the chain's bindings as they were.
C17_AddDeletedRule ==
    [][AddDeletedStep => rt_outcome' = InvalidRule /\ chain' = chain]_vars

\* a deleted rule was refused by a chain that holds another rule
C17_Witness ==
    /\ rt_lastOp = "router_add_rule" /\ rt_outcome = InvalidRule
    /\ router = "live" /\ rules[rt_req.rule].released = 1
    /\ rt_req.had = 1 /\ chain_size(chain) = 1

\* the chain has a rule set for the kind of the last event
Bound == chain[routed.in.type] # <<>>

\* every axis rule of the first rule set for the event's kind yields a value
AllAxesYield ==
    \A a \in Axes :
       Expected(chain[routed.in.type][1][a], routed.in[a],
                IF a = "chan" THEN 15 ELSE 127) # NoValue

\* C18: an event the chain routes is forwarded to the synthesis engine exactly
\* when every axis rule of the first rule set registered for its kind yields a
\* value; the forwarded event has the kind of the original and the axes'
\* outputs as its fields; a dropped event raises nothing and causes no call
\* of the engine.
C18_ForwardedIffAllAxesYield ==
    rt_lastOp = "midi_event" =>
        /\ routed.forwarded <=> (Bound => AllAxesYield)
        /\ routed.forwarded =>
              /\ routed.engine_calls = 1
              /\ routed.out.type = routed.in.type
              /\ \A a \in Axes :
                    routed.out[a] =
                       IF Bound
                       THEN Expected(chain[routed.in.type][1][a], routed.in[a],
                                     IF a = "chan" THEN 15 ELSE 127)
                       ELSE routed.in[a]
        /\ ~routed.forwarded =>
              /\ ~routed.raised
              /\ rt_outcome = "ok"
              /\ routed.engine_calls = 0

\* a note on channel 0 was dropped by a chain whose first note rule passes
\* channels 4..8, and whose second note rule would have passed it
C18_Witness ==
    /\ rt_lastOp = "midi_event" /\ ~routed.forwarded
    /\ routed.in.type = FLUID_MIDI_ROUTER_RULE_NOTE /\ routed.in.chan = 0
    /\ Len(chain[FLUID_MIDI_ROUTER_RULE_NOTE]) = 2
    /\ chain[FLUID_MIDI_ROUTER_RULE_NOTE][1]["chan"].min = 4
    /\ chain[FLUID_MIDI_ROUTER_RULE_NOTE][2]["chan"].min = 0

\* events of every recognized kind with legal values in their fields
LegalEvents ==
    {[type |-> t, chan |-> c, param1 |-> p, param2 |-> q] :
        t \in RuleTypes, c \in 0..15, p \in {0, 60, 127}, q \in {0, 64, 127}}

\* C19: after router_clear the chain holds no binding of any type; after
\* router_default every event of a recognized kind with legal field values is
\* forwarded with channel and both parameters unchanged, whatever rules the
\* chain held before.
C19_ClearAndDefault ==
    /\ (rt_lastOp = "router_clear" /\ router # "None") =>
          \A t \in RuleTypes : chain[t] = <<>>
    /\ (rt_lastOp = "router_default" /\ router # "None") =>
          \A ev \in LegalEvents :
             route_yields(chain, ev) /\ route_out(chain, ev) = ev

\* the default rules were installed over a chain that held two rules
C19_Witness ==
    /\ rt_lastOp = "router_default" /\ router = "live" /\ rt_req.had = 2
    /\ \A t \in RuleTypes : Len(chain[t]) = 1

(* ===================== the client table: claims ====================== *)
\* C20: the ids that the successful registrations on one sequencer returned
\* are 0, 1, 2, ... in the order of the calls; no id is returned twice, also
\* not after the client that held it was unregistered.
C20_ClientIdsSequential ==
    /\ \A i \in 1..Len(seq_ids) : seq_ids[i] = i - 1
    /\ \A i, j \in 1..Len(seq_ids) : i # j => seq_ids[i] # seq_ids[j]

\* client 0 was unregistered, and the registration after it got id 1
C20_Witness ==
    /\ seq_lastOp = "register_client" /\ seq_outcome = "ok"
    /\ seq_ids = <<0, 1>>
    /\ seq_clients = {1}
    /\ client_callbacks = <<1>>

\* the entries a step hands to callbacks
Delivered == SubSeq(seq_log', Len(seq_log) + 1, Len(seq_log'))

\* no callback of a client outside the table is invoked
OnlyRegisteredStep ==
    \A i \in 1..Len(Delivered) : Delivered[i].dest \in seq_clients

\* process removes every due entry without raising, and delivers those of the
\* registered clients in their order
DropStep ==
    (seq_lastOp' = "process") =>
        /\ seq_outcome' = "ok"
        /\ \A i \in 1..Len(seq_queue') : seq_queue'[i].want > seq_tick'
        /\ Delivered = SelectSeq(seq_queue,
                          LAMBDA e : e.want <= seq_tick' /\ e.dest \in seq_clients)

\* unregistering a client that is not in the table changes nothing
UnregisterAgainStep ==
    (seq_lastOp' = "unregister_client" /\ seq_req'.dest \notin seq_clients) =>
        /\ seq_outcome' = "ok"
        /\ UNCHANGED <<seq_tick, time_scale, seq_clients, seq_next_id, seq_queue,
                       seq_log, seq_removed, seq_serial, client_callbacks, seq_ids,
                       seq_ctor, seq_timer>>

\* C21: after unregister_client(X) no callback of X is invoked again; pending
\* entries addressed to X are removed when they fall due, without an error,
\* and the pending entries of the other clients are still dispatched, in
\* order; a second unregister_client(X) changes nothing.
C21_UnregisterIdempotent ==
    /\ [][OnlyRegisteredStep]_vars
    /\ [][DropStep]_vars
    /\ [][UnregisterAgainStep]_vars
    /\ [](\A i, j \in 1..Len(seq_log) : i < j => Before(seq_log[i], seq_log[j]))

\* entries were pending for clients 0 and 1, client 0 was unregistered, and
\* process delivered the entry of client 1 only
C21_Witness ==
    /\ seq_lastOp = "process"
    /\ seq_serial = 2 /\ seq_queue = <<>>
    /\ Len(seq_log) = 1 /\ seq_log[1].dest = 1 /\ seq_log[1].id = 2
    /\ seq_clients = {1}

\* the last schedule call's entry, wherever it is
Newest(log, queue, id) ==
    {log[i] : i \in {k \in 1..Len(log) : log[k].id = id}} \cup
    {queue[i] : i \in {k \in 1..Len(queue) : queue[k].id = id}}

\* a schedule call whose event was accepted
AcceptStep == seq_lastOp' = "schedule" /\ seq_serial' = seq_serial + 1

\* C22: an accepted entry is scheduled at the current tick when no time is
\* given (and is then dispatched before schedule returns), at the time itself
\* when absolute is true, and at the current tick plus the time when absolute
\* is false (and then waits in the queue).
C22_ScheduledTick ==
    [][AcceptStep =>
         LET r == seq_req'
             at == IF r.time = NoTime THEN seq_tick
                   ELSE IF r.absolute THEN r.time ELSE seq_tick + r.time
         IN /\ \A e \in Newest(seq_log', seq_queue', seq_serial') : e.tick = at
            /\ IF r.time = NoTime
               THEN /\ seq_queue' = seq_queue
                    /\ Len(seq_log') = Len(seq_log) + 1
                    /\ seq_log'[Len(seq_log')].id = seq_serial'
               ELSE /\ seq_log' = seq_log
                    /\ Len(seq_queue') = Len(seq_queue) + 1
                    /\ \E i \in 1..Len(seq_queue') : seq_queue'[i].id = seq_serial']_vars

\* at tick 2 an entry was scheduled 1 tick ahead: it waits at tick 3
C22_Witness ==
    /\ seq_lastOp = "schedule" /\ seq_outcome = "ok"
    /\ seq_req.time = 1 /\ ~seq_req.absolute /\ seq_tick = 2
    /\ \E i \in 1..Len(seq_queue) :
          seq_queue[i].id = seq_serial /\ seq_queue[i].tick = 3

\* C23: schedule raises (DispatchFailed) whenever the event's destination is
\* not a registered client when schedule is called, with a time and without.
C23_DispatchFailed ==
    (seq_lastOp = "schedule" /\ seq_req.dest \notin seq_clients) =>
        seq_outcome = ScheduleFailed

\* C24: the current tick never decreases, whatever register, schedule,
\* advance, remove_events and set_time_scale calls are made (and whatever the
\* engine's timer does).
C24_TickMonotonic ==
    [][Sequencer_get_tick' >= Sequencer_get_tick]_vars

\* the clock has moved, then the scale was changed with entries pending
C24_Witness ==
    /\ seq_lastOp = "set_time_scale" /\ seq_req.scale # seq_ctor.time_scale
    /\ Sequencer_get_tick = 3 /\ seq_queue # <<>>

ManualMode == ~seq_ctor.use_system_timer

\* a schedule call without a time
ImmediateStep == seq_lastOp' = "schedule" /\ seq_req'.time = NoTime

ManualStep ==
    ManualMode =>
       /\ (seq_lastOp' # "process" =>
              /\ Sequencer_get_tick' = Sequencer_get_tick
              /\ (~ImmediateStep => seq_log' = seq_log))
       /\ (seq_lastOp' # "remove_events" =>
              \A i \in 1..Len(seq_queue) :
                 seq_queue[i].tick > seq_tick' =>
                    \E j \in 1..Len(seq_queue') : seq_queue'[j] = seq_queue[i])
       /\ \A i \in 1..Len(seq_log') :
             i > Len(seq_log) => seq_log'[i].tick <= seq_tick'

\* C25: on a sequencer constructed without the system timer, advance
\* (process) is the only call that changes the tick or dispatches: register,
\* schedule with a time, remove_events and reading the tick leave the tick
\* alone and dispatch nothing, and an entry stays pending until an advance
\* reaches its tick.
C25_ManualAdvanceOnly ==
    [][ManualStep]_vars

\* manual mode: an entry for tick 1 is still pending after a registration
C25_Witness ==
    /\ ManualMode /\ seq_lastOp = "register_client" /\ seq_tick = 0
    /\ Len(seq_queue) = 1 /\ seq_queue[1].tick = 1 /\ seq_log = <<>>

ScaleStep ==
    /\ (seq_lastOp' = "process" =>
           seq_tick' * 1000 = seq_tick * 1000 + seq_req'.msec * sequencer_get_time_scale)
    /\ (seq_lastOp' = "set_time_scale" => sequencer_get_time_scale' = seq_req'.scale)
    /\ (seq_lastOp' # "set_time_scale" =>
           sequencer_get_time_scale' = sequencer_get_time_scale)

\* C26: advance(delta_ms) moves the tick by delta_ms * scale / 1000; the
\* scale is 1000 unless the constructor was given one, and get_time_scale
\* answers the value last given to set_time_scale or to the constructor.
C26_TimeScale ==
    /\ [][ScaleStep]_vars
    /\ [](seq_lastOp = "init" =>
            sequencer_get_time_scale =
               IF seq_ctor.time_scale = NoScale THEN 1000 ELSE seq_ctor.time_scale)

\* constructed at the default scale, set to 2000: 2 ms are 4 ticks
C26_Witness ==
    /\ seq_lastOp = "process" /\ seq_req.msec = 2 /\ seq_ctor.time_scale = NoScale
    /\ sequencer_get_time_scale = 2000 /\ seq_tick = 4

RegistrationFailed == "OSError: registering failed"

RegisterStep ==
    (seq_lastOp' = "register_client") =>
       \/ /\ seq_outcome' = "ok"
          /\ Len(seq_ids') = Len(seq_ids) + 1
          /\ LET id == seq_ids'[Len(seq_ids')]
             IN /\ id >= 0
                /\ id \notin seq_clients
                /\ seq_clients' = seq_clients \cup {id}
                /\ client_callbacks' = Append(client_callbacks, id)
       \/ /\ seq_outcome' = RegistrationFailed
          /\ UNCHANGED <<seq_clients, seq_next_id, client_callbacks, seq_ids>>

\* a callback once held is held from then on
HoldStep ==
    /\ Len(client_callbacks') >= Len(client_callbacks)
    /\ \A i \in 1..Len(client_callbacks) : client_callbacks'[i] = client_callbacks[i]

\* C27: register_client either returns a valid id, and the callback is then
\* held by the Sequencer for as long as the client is registered, or it fails
\* with RegistrationFailed and leaves the client table and the held callbacks
\* as they were.
C27_RegisterAllOrNothing ==
    /\ [][RegisterStep]_vars
    /\ [][HoldStep]_vars

\* the table is full: a registration failed, the one callback is still held
C27_Witness ==
    /\ seq_lastOp = "register_client" /\ seq_outcome = RegistrationFailed
    /\ Len(client_callbacks) = 1 /\ client_callbacks[1] \in seq_clients

\* the loop's test is where a stop is seen
ObserveStep ==
    (lastOp' = "render_test") =>
       pc' = IF status = FLUID_PLAYER_DONE THEN "finally" ELSE "block"

\* a stop from another thread leaves render where it is
StopDuringRenderStep ==
    (lastOp' = "stop" /\ pc # "idle") =>
       /\ (status = FLUID_PLAYER_PLAYING => status' = FLUID_PLAYER_DONE)
       /\ UNCHANGED <<pc, num_samples, blocks, requests, pending, cleanup, renderer>>

\* a block under way is finished and counted, whatever the status has become
BlockCountedStep ==
    (lastOp' = "render_block") =>
       /\ pc = "block"
       /\ requests' = requests + 1
       /\ (pending' = "none" =>
              /\ blocks' = blocks + 1
              /\ num_samples' = num_samples + period_size
              /\ pc' = "test")

\* no block is asked for except after a test that did not see Done
NoBlockAfterDoneStep ==
    /\ (pc' = "block" /\ pc # "block" => pc = "test" /\ status # FLUID_PLAYER_DONE)
    /\ (requests' # requests /\ requests' # 0 => lastOp' = "render_block")

\* C28: a stop() from another thread while render runs is seen only at the
\* loop's test: the block under way is finished and counted, no block is
\* asked for once Done was seen, and render runs its cleanup and returns the
\* frames counted so far.
C28_StopBetweenBlocks ==
    /\ [][ObserveStep]_vars
    /\ [][StopDuringRenderStep]_vars
    /\ [][BlockCountedStep]_vars
    /\ [][NoBlockAfterDoneStep]_vars
    /\ [](RenderLeft /\ outcome = "returned" =>
             /\ retval = num_samples
             /\ num_samples = blocks * period_size
             /\ requests = blocks
             /\ cleanup = render_cleanup_calls)

\* two blocks were written, a stop came from outside before the end of the
\* file, and the test has seen it
C28_Witness ==
    /\ pc = "finally" /\ lastOp = "render_test" /\ pending = "none"
    /\ stop_calls = Player_stop_calls /\ status = FLUID_PLAYER_DONE
    /\ blocks = 2 /\ num_samples = 2 * period_size /\ position < total_ticks

\* C30: the event object a scheduling call (note, note_on, note_off, timer)
\* creates has been deleted when the call returns or raises, also when the
\* scheduling fails.
C30_EventDiscarded ==
    (seq_lastOp = "schedule") => seq_req.evt = "deleted"

\* how often the entry with this serial number is in a sequence of entries
Times(entries, id) == Cardinality({i \in 1..Len(entries) : entries[i].id = id})

\* clients whose callback the Sequencer holds
Held == {client_callbacks[i] : i \in 1..Len(client_callbacks)}

\* every accepted entry is pending or was delivered or was removed, once
EachEntryOnce ==
    \A id \in 1..seq_serial :
       Times(seq_log, id) + Times(seq_queue, id) + (IF id \in seq_removed THEN 1 ELSE 0) = 1

\* what a step delivers goes to a client of the table whose callback is held
DeliverToRegisteredStep ==
    \A i \in 1..Len(seq_log') :
       i > Len(seq_log) => seq_log'[i].dest \in seq_clients \cap Held

RenderEnded ==
    pc = "idle" /\ lastOp \in {"render", "render_finally"} /\ outcome # UnknownFormat

\* C31: after a call of render that got past the validation of the file
\* type, however it ended (also when no file renderer could be created),
\* 'player.timing-source' is 'system' and 'synth.lock-memory' is 1 again.
C31_RealtimeRestored ==
    RenderEnded =>
        /\ settings["player.timing-source"] = "system"
        /\ settings["synth.lock-memory"] = 1

\* a block of render was produced and counted
BlockDoneStep == lastOp' = "render_block" /\ pending' = "none"

\* C32: render on a player with finite streams leaves its block loop and
\* returns when every block is produced, from Ready, Playing or Done: each
\* block produced brings the player nearer the end of its streams (the
\* position grows, and is bounded by the streams' length) or makes it Done,
\* which the loop's next test sees.
C32_RenderTerminates ==
    [][BlockDoneStep => (status' = FLUID_PLAYER_DONE \/ position' > position)]_vars

(* ====================== Synth: effects, notes, delete ====================== *)
\* a set_reverb or set_chorus call on an engine with only the masked calls
MaskedStep(op) == fx_req'.op = op /\ fx_calls' = fx_calls + 1 /\ ~fx.plain

\* the mask has bit i exactly for the parameters given, and only those are set
MaskMatches(before, after) ==
    \A i \in DOMAIN before :
       /\ mask_bit(fx_req'.mask, i) <=> fx_req'.args[i] >= 0
       /\ after[i] = IF fx_req'.args[i] >= 0 THEN fx_req'.args[i] ELSE before[i]

\* C33: on an engine with only the masked calls, set_reverb passes a mask
\* whose bit i is set if and only if its i-th parameter is >= 0 (roomsize,
\* damping, width, level: bits 0 to 3), set_chorus likewise (nr, level, speed,
\* depth, type: bits 0 to 4); a parameter left negative is not applied, and
\* the mask is 0 when none is given.
C33_MaskOfGivenFields ==
    /\ [][MaskedStep("set_reverb") =>
             /\ MaskMatches(fx.reverb, fx'.reverb)
             /\ fx'.chorus = fx.chorus
             /\ fx_req'.mask \in 0..15]_vars
    /\ [][MaskedStep("set_chorus") =>
             /\ MaskMatches(fx.chorus, fx'.chorus)
             /\ fx'.reverb = fx.reverb
             /\ fx_req'.mask \in 0..31]_vars
    /\ [][(MaskedStep("set_reverb") \/ MaskedStep("set_chorus")) =>
             ((\A i \in DOMAIN fx_req'.args : fx_req'.args[i] < 0) =>
                 fx_req'.mask = 0 /\ fx' = fx)]_vars

\* set_reverb(damping=0, level=1): mask 0b1010, roomsize and width kept
C33_Witness ==
    /\ ~fx.plain /\ fx_req.op = "set_reverb" /\ fx_req.mask = 10
    /\ fx_req.args = <<-1, 0, -1, 1>>
    /\ fx.reverb = <<FxInitial, 0, FxInitial, 1>>

\* C34: set_chorus_level(x) changes the engine's chorus level and leaves the
\* reverb level as it was: afterwards get_chorus_level returns x and
\* get_reverb_level returns what it returned before.
C34_ChorusLevel ==
    [][fx_req'.op = "set_chorus_level" /\ fx_calls' = fx_calls + 1 =>
          /\ Synth_get_chorus_level' = fx_req'.args[1]
          /\ Synth_get_reverb_level' = Synth_get_reverb_level
          /\ fx'.chorus[2] = fx_req'.args[1]]_vars

\* C35: noteon and noteoff return False without calling the engine whenever
\* the key (for noteon also the velocity) is outside 0..127 or the channel is
\* negative; every note that reaches the engine has key and velocity in 0..127.
C35_NoteRange ==
    (note_req.op # "none") =>
       LET legal == /\ note_req.key \in 0..127
                    /\ note_req.vel \in 0..127
                    /\ note_req.chan >= 0
       IN /\ note_req.reached => legal
          /\ ~legal => note_req.ret = "False"

\* what Synth.delete released, given what start created
Created(name) ==
    CASE name = "delete_fluid_audio_driver" -> parts.audio_driver # "None"
      [] name = "delete_fluid_midi_driver" -> parts.midi_driver # "None"
      [] name = "delete_fluid_midi_router" -> router # "None"
      [] name = "delete_fluid_cmd_handler" -> parts.cmd_handler # "None"
      [] OTHER -> TRUE

\* the position of a delete call in Synth.delete's calls, 0 if it was not made
Place(name) ==
    IF \E i \in 1..Len(deleted) : deleted[i] = name
    THEN CHOOSE i \in 1..Len(deleted) : deleted[i] = name
    ELSE 0

Releases ==
    {"delete_fluid_audio_driver", "delete_fluid_midi_driver", "delete_fluid_midi_router",
     "delete_fluid_cmd_handler", "delete_fluid_synth", "delete_fluid_settings"}

\* the order Synth.delete states: the drivers, the router and the command
\* handler, each only if it was created, before the synth, and the synth before
\* the settings; the MIDI driver before the router; nothing released twice
DeleteOrderStated ==
    (deleted # <<>>) =>
       /\ \A name \in Releases : (Place(name) # 0) <=> Created(name)
       /\ \A i, j \in 1..Len(deleted) : i # j => deleted[i] # deleted[j]
       /\ \A i \in 1..Len(deleted) : deleted[i] \in Releases
       /\ Place("delete_fluid_settings") = Len(deleted)
       /\ Place("delete_fluid_synth") = Len(deleted) - 1
       /\ (Created("delete_fluid_midi_driver") /\ Created("delete_fluid_midi_router") =>
              Place("delete_fluid_midi_driver") < Place("delete_fluid_midi_router"))

\* C36: Synth.delete releases in dependency order: besides the stated order,
\* no component is released while a component created from it is still
\* alive, so of two released components the one created from the other is
\* released first.
C36_DependencyOrder ==
    /\ DeleteOrderStated
    /\ \A pair \in created_from :
          (Place(pair[1]) # 0 /\ Place(pair[2]) # 0) => Place(pair[1]) < Place(pair[2])

=============================================================================
